---- MODULE Spec2Model ----
(***************************************************************************)
(* Schema metadata registry and the document / graph / relational schema  *)
(* compilers of packages/persistence.                                      *)
(*                                                                         *)
(* A property entry (IPropertySchemaMetadata) is a record whose domain is  *)
(* the set of option fields that were actually given: the JavaScript       *)
(* spread { ...a, ...b } is Spread(a, b).  A declared type is a record     *)
(* [kind, name]: a constructor ("ctor"), an array literal whose first      *)
(* element is a constructor ("array"), or a TypeScript enum object         *)
(* ("enumobj").  Enum values are strings; the numeric ones are the         *)
(* strings of NumericValues.                                               *)
(***************************************************************************)
EXTENDS Integers, Sequences, FiniteSets, TLC

VARIABLES own, declared, nregs, out,
          adapter, indexed, store, hydrateFn, calls, nops

vars == <<own, declared, nregs, out, adapter, indexed, store, hydrateFn, calls, nops>>

\* The state of a repository: the adapter class, whether its database keeps
\* a unique constraint, the stored records, the hydration function being
\* set, the call each caller has in progress, and the calls begun so far.
repository == <<adapter, indexed, store, hydrateFn, calls, nops>>

\* The state of the schema registry and of the last compile call.
registry == <<own, declared, nregs, out>>

\* The concurrent callers of a repository.
Procs == {1, 2}

NoEntity == [id |-> "none"]

\* A caller with no call in progress and none made.
Idle ==
    [op |-> "none", arg |-> NoEntity, pc |-> "idle", res |-> "none",
     effects |-> << >>, ret |-> {}]

\* No repository constructed.
NoRepository ==
    /\ adapter = "none"
    /\ indexed = FALSE
    /\ store = {}
    /\ hydrateFn = FALSE
    /\ calls = [p \in Procs |-> Idle]
    /\ nops = 0

(***************************************************************************)
(* Bounds of the model: the number of registrations explored by the        *)
(* registry specification, by the compiler specification and by the        *)
(* recursion-depth specification.                                          *)
(***************************************************************************)
MaxRegs == 3

MaxCompileRegs == 2

MaxDepthRegs == 2

(***************************************************************************)
(* The classes of the program under registration.                          *)
(***************************************************************************)
NoClass == "null"

DomainClasses == {"Entity", "ValueObject", "Enumeration"}

\* Classes that receive registrations while the model runs.
RegClasses == {"Base", "Derived", "Plain"}

\* Fixture classes, registered when their module is loaded.
FixtureClasses == {"Addr", "Color"}

UserClasses == RegClasses \cup FixtureClasses

Classes == UserClasses \cup DomainClasses

\* Object.getPrototypeOf on the class constructors.
Parent(c) ==
    CASE c = "Base" -> "Entity"
      [] c = "Derived" -> "Base"
      [] c = "Addr" -> "ValueObject"
      [] c = "Color" -> "Enumeration"
      [] OTHER -> NoClass

RECURSIVE Chain(_)
\* The constructors visited by the prototype walk, derived first.
Chain(c) == IF c = NoClass THEN << >> ELSE <<c>> \o Chain(Parent(c))

\* c.prototype instanceof b : b is a strict ancestor of c.
InstanceOf(c, b) ==
    /\ c \in Classes
    /\ \E i \in 2..Len(Chain(c)) : Chain(c)[i] = b

Ctor(n) == [kind |-> "ctor", name |-> n]
ArrayOf(n) == [kind |-> "array", name |-> n]
EnumObj(n) == [kind |-> "enumobj", name |-> n]

NumericValues == {"1", "2"}

\* Object.values of the enum objects (a numeric enum carries its reverse mapping).
ObjectValues(n) ==
    CASE n = "BasicEnum" -> <<"VALUE_A", "VALUE_B", "VALUE_C">>
      [] n = "BasicNumericEnum" -> <<"One", "Two", "1", "2">>
      [] OTHER -> << >>

\* The static instances of an Enumeration class, by _name.
getEnumerationClassValues(n) ==
    IF n = "Color" THEN <<"Red", "Green">> ELSE << >>

(***************************************************************************)
(* Helpers for maps kept in insertion order.                               *)
(***************************************************************************)
Spread(a, b) ==
    [f \in (DOMAIN a) \cup (DOMAIN b) |-> IF f \in DOMAIN b THEN b[f] ELSE a[f]]

Has(e, f) == f \in DOMAIN e

IsTrue(e, f) == Has(e, f) /\ e[f] = TRUE

KeyIndex(s, k) ==
    IF \E i \in 1..Len(s) : s[i].propertyKey = k
    THEN CHOOSE i \in 1..Len(s) :
            /\ s[i].propertyKey = k
            /\ \A j \in 1..(i - 1) : s[j].propertyKey # k
    ELSE 0

\* Map.get, or the empty object when the key is absent.
MapGet(s, k) == IF KeyIndex(s, k) = 0 THEN << >> ELSE s[KeyIndex(s, k)]

\* Map.set: an existing key keeps its position.
MapSet(s, k, v) ==
    IF KeyIndex(s, k) = 0 THEN Append(s, v)
    ELSE [s EXCEPT ![KeyIndex(s, k)] = v]

RECURSIVE SetAll(_, _)
\* for (prop of props) map.set(key, prop)
SetAll(m, props) ==
    IF props = << >> THEN m
    ELSE SetAll(MapSet(m, Head(props).propertyKey, Head(props)), Tail(props))

RECURSIVE MergeAll(_, _)
\* for (prop of props) map.set(key, { ...map.get(key), ...prop })
MergeAll(m, props) ==
    IF props = << >> THEN m
    ELSE MergeAll(
            MapSet(m, Head(props).propertyKey,
                   Spread(MapGet(m, Head(props).propertyKey), Head(props))),
            Tail(props))

(***************************************************************************)
(* domain-type-mappings.ts                                                 *)
(***************************************************************************)
DOMAIN_TYPE_MAPPINGS(c) ==
    CASE c = "Entity" ->
            << [propertyKey |-> "_id", type |-> Ctor("UniqueIdentifier"),
                isIdentifier |-> TRUE, isDomainAbstraction |-> TRUE,
                default |-> "uuid"],
               [propertyKey |-> "createdAt", type |-> Ctor("Date"),
                isDomainAbstraction |-> TRUE],
               [propertyKey |-> "updatedAt", type |-> Ctor("Date"),
                isDomainAbstraction |-> TRUE, optional |-> TRUE] >>
      [] c = "Enumeration" ->
            << [propertyKey |-> "id", type |-> Ctor("Number"),
                isDomainAbstraction |-> TRUE],
               [propertyKey |-> "name", type |-> Ctor("String"),
                isDomainAbstraction |-> TRUE] >>
      [] OTHER -> << >>

getDomainSchemaMetadata(c) == DOMAIN_TYPE_MAPPINGS(c)

\* DOMAIN_PRIMITIVE_TYPE_MAP.get(type): the mapped constructor name, or "".
DOMAIN_PRIMITIVE_TYPE_MAP(t) ==
    IF t = Ctor("UniqueIdentifier") THEN "String" ELSE ""

\* DOMAIN_PRIMITIVE_TYPE_MAP.get(metadata.type), "" also for an undefined type.
PrimitiveOf(metadata) ==
    IF "type" \in DOMAIN metadata THEN DOMAIN_PRIMITIVE_TYPE_MAP(metadata.type) ELSE ""

getDatabaseTypeForDomainPrimitive(t) == DOMAIN_PRIMITIVE_TYPE_MAP(t)

(***************************************************************************)
(* database.schema.ts : the registry.                                      *)
(***************************************************************************)
\* Reflect.getOwnMetadata(DatabaseSchemaMetadataKey, c) || []
OwnMetadata(reg, c) == IF c \in DOMAIN reg THEN reg[c] ELSE << >>

\* One level of the prototype walk: domain metadata first, explicit over it.
LevelMetadata(reg, c) ==
    MergeAll(SetAll(<< >>, getDomainSchemaMetadata(c)), OwnMetadata(reg, c))

RECURSIVE FoldLevels(_, _, _)
\* allMetadata folded from its last element (the base) to its first.
FoldLevels(reg, chain, i) ==
    IF i = 0 THEN << >>
    ELSE MergeAll(FoldLevels(reg, chain, i - 1),
                  LevelMetadata(reg, chain[Len(chain) + 1 - i]))

getDatabaseSchemaMetadata(reg, c) == FoldLevels(reg, Chain(c), Len(Chain(c)))

(***************************************************************************)
(* Type tests of the compilers.                                            *)
(***************************************************************************)
IsArray(e) == Has(e, "type") /\ e.type.kind = "array"

IsFunction(e) == Has(e, "type") /\ e.type.kind = "ctor"

\* typeof type === 'object' && type !== null, arrays excluded.
IsEnumObject(e) == Has(e, "type") /\ e.type.kind = "enumobj"

IsEnumerationClass(n) == InstanceOf(n, "Enumeration")

\* n.prototype instanceof ValueObject || n.prototype instanceof Entity
IsEmbeddable(n) == InstanceOf(n, "ValueObject") \/ InstanceOf(n, "Entity")

SomeNumeric(vals) == \E i \in 1..Len(vals) : vals[i] \in NumericValues

RECURSIVE SelectSeqIn(_, _)
SelectSeqIn(s, S) ==
    IF s = << >> THEN << >>
    ELSE IF Head(s) \in S THEN <<Head(s)>> \o SelectSeqIn(Tail(s), S)
         ELSE SelectSeqIn(Tail(s), S)

(***************************************************************************)
(* The recursion limit of the document and relational compilers.           *)
(***************************************************************************)
DepthLimit == 5

\* The guard as it would read with the limit itself excluded (depth >= 5).
BeyondLimit_inclusive(c, depth) == c = NoClass \/ depth >= DepthLimit

\* The guard as it would read with one more level allowed (depth > 6).
BeyondLimit_later(c, depth) == c = NoClass \/ depth > DepthLimit + 1

\* if (!targetClass || depth > 5) return the empty placeholder
BeyondLimit(c, depth) == c = NoClass \/ depth > DepthLimit

\* The descent as it would read if a nested call skipped a level.
Deeper_skip(depth) == depth + 2

\* this.extract(type, depth + 1) : the depth handed to the nested call.
Deeper(depth) == depth + 1

(***************************************************************************)
(* mongo.schema.ts : MongoSchema.extract, the document compiler.           *)
(*                                                                         *)
(* A Schema is [obj, _id]; obj maps a key to its type definition.  A type  *)
(* definition is { type: X, ... } (shape "obj"), an array literal [X]      *)
(* (shape "arr") or a nested Schema (shape "schema"); the flags unique,    *)
(* optional, default and enum are fields set on it.                        *)
(***************************************************************************)
EmptySchema == [obj |-> << >>, _id |-> FALSE]

TypeObj(t) == [shape |-> "obj", type |-> t]

\* unique, optional, default and the explicit enum, applied when defined.
ApplyOptions(def, options) ==
    Spread(def, [f \in (DOMAIN options) \cap {"unique", "optional", "default", "enum"}
                    |-> options[f]])

\* The domain base properties appended after the decorated ones.
DomainBaseProps(c) ==
    (IF InstanceOf(c, "Entity") THEN getDomainSchemaMetadata("Entity") ELSE << >>)
    \o (IF InstanceOf(c, "Enumeration") THEN getDomainSchemaMetadata("Enumeration") ELSE << >>)
    \o (IF InstanceOf(c, "ValueObject") THEN getDomainSchemaMetadata("ValueObject") ELSE << >>)

\* allProps = [...decoratedProps, ...domainBaseProps]
AllProps(reg, c) == getDatabaseSchemaMetadata(reg, c) \o DomainBaseProps(c)

\* The type of an enum object: Number when it has a numeric value.
EnumObjectType(vals) == IF SomeNumeric(vals) THEN "Number" ELSE "String"

\* The _id option as it would read if only value objects and enumerations
\* were denied an identifier.
shouldHaveId_unlessValue(c) ==
    ~(InstanceOf(c, "ValueObject") \/ InstanceOf(c, "Enumeration"))

\* shouldHaveId: false, set to true if (targetClass.prototype instanceof Entity)
shouldHaveId(c) == InstanceOf(c, "Entity")

RECURSIVE MongoSchema_extract(_, _, _)
RECURSIVE MongoSchema_typeDefinition(_, _, _)
RECURSIVE MongoSchema_fields(_, _, _, _)

\* The type definition before the option flags are applied.
MongoSchema_typeDefinition(reg, options, depth) ==
    LET relDef == TypeObj(ArrayOf("String"))
        rel == Has(options, "relationship")
        fallback ==
            IF rel THEN relDef
            ELSE IF ~Has(options, "type") THEN [shape |-> "obj"]
            ELSE IF options.type = Ctor("UniqueIdentifier") THEN TypeObj(Ctor("String"))
            ELSE TypeObj(options.type)
    IN  IF IsFunction(options) /\ IsEnumerationClass(options.type.name)
        THEN Spread(TypeObj(Ctor("String")),
                    [enum |-> getEnumerationClassValues(options.type.name)])
        ELSE IF IsArray(options)
        THEN LET item == options.type.name
             IN  IF item \in {"UniqueIdentifier", "String"}
                 THEN [shape |-> "arr", item |-> Ctor("String")]
                 ELSE IF item = "Number"
                 THEN [shape |-> "arr", item |-> Ctor("Number")]
                 ELSE IF IsEmbeddable(item)
                 THEN [shape |-> "arr",
                       item |-> [kind |-> "schema",
                                 schema |-> MongoSchema_extract(reg, item, Deeper(depth))]]
                 ELSE IF IsEnumerationClass(item)
                 THEN [shape |-> "arr",
                       item |-> [kind |-> "def",
                                 def |-> Spread(TypeObj(Ctor("String")),
                                                [enum |-> getEnumerationClassValues(item)])]]
                 ELSE [shape |-> "arr", item |-> Ctor(item)]
        ELSE IF IsEnumObject(options) /\ ObjectValues(options.type.name) # << >>
        THEN Spread(TypeObj(Ctor(EnumObjectType(ObjectValues(options.type.name)))),
                    [enum |-> ObjectValues(options.type.name)])
        ELSE IF IsFunction(options) /\ IsEmbeddable(options.type.name)
        THEN [shape |-> "schema",
              schema |-> MongoSchema_extract(reg, options.type.name, Deeper(depth))]
        ELSE fallback

\* allProps.forEach: a later property with the same key replaces the field.
MongoSchema_fields(reg, props, depth, obj) ==
    IF props = << >> THEN obj
    ELSE MongoSchema_fields(reg, Tail(props), depth,
            (Head(props).propertyKey :>
                ApplyOptions(MongoSchema_typeDefinition(reg, Head(props), depth),
                             Head(props)))
            @@ obj)

MongoSchema_extract(reg, c, depth) ==
    IF BeyondLimit(c, depth) THEN EmptySchema
    ELSE [obj |-> MongoSchema_fields(reg, AllProps(reg, c), depth, << >>),
          _id |-> shouldHaveId(c)]

(***************************************************************************)
(* mongo.repository.ts : Mongo.Schema, the document compiler kept beside   *)
(* the repository.                                                         *)
(***************************************************************************)
RECURSIVE Mongo_Schema(_, _, _)
RECURSIVE Mongo_typeDefinition(_, _, _)
RECURSIVE Mongo_fields(_, _, _, _)

Mongo_typeDefinition(reg, options, depth) ==
    LET rel == Has(options, "relationship")
        fallback ==
            IF rel THEN TypeObj(ArrayOf("String"))
            ELSE IF ~Has(options, "type") THEN [shape |-> "obj"]
            ELSE IF options.type = Ctor("UniqueIdentifier") THEN TypeObj(Ctor("String"))
            ELSE IF IsArray(options) THEN [shape |-> "arr", item |-> Ctor(options.type.name)]
            ELSE TypeObj(options.type)
    IN  IF IsFunction(options) /\ IsEnumerationClass(options.type.name)
        THEN Spread(TypeObj(Ctor("String")),
                    [enum |-> getEnumerationClassValues(options.type.name)])
        ELSE IF IsEnumObject(options) /\ ObjectValues(options.type.name) # << >>
        THEN Spread(TypeObj(Ctor("String")), [enum |-> ObjectValues(options.type.name)])
        ELSE IF IsFunction(options) /\ IsEmbeddable(options.type.name)
        THEN [shape |-> "schema",
              schema |-> Mongo_Schema(reg, options.type.name, Deeper(depth))]
        ELSE IF IsArray(options) /\ options.type.name = "UniqueIdentifier"
        THEN [shape |-> "arr", item |-> Ctor("String")]
        ELSE IF IsArray(options) /\ IsEmbeddable(options.type.name)
        THEN TypeObj([kind |-> "schemaArray",
                      schema |-> Mongo_Schema(reg, options.type.name, Deeper(depth))])
        ELSE fallback

Mongo_fields(reg, props, depth, obj) ==
    IF props = << >> THEN obj
    ELSE Mongo_fields(reg, Tail(props), depth,
            (Head(props).propertyKey :>
                ApplyOptions(Mongo_typeDefinition(reg, Head(props), depth), Head(props)))
            @@ obj)

Mongo_Schema(reg, c, depth) ==
    IF BeyondLimit(c, depth) THEN EmptySchema
    ELSE [obj |-> Mongo_fields(reg, AllProps(reg, c), depth, << >>),
          _id |-> shouldHaveId(c)]

(***************************************************************************)
(* neo4j.schema.ts : Neo4jSchema.extract, the graph compiler.              *)
(*                                                                         *)
(* A node property is a record of the fields that are defined: type, and   *)
(* isIdentifier, unique, optional, enum, default when not undefined.       *)
(***************************************************************************)
\* Reflect.hasOwnMetadata(DatabaseSchemaMetadataKey, n)
HasOwnMetadata(reg, n) == n \in DOMAIN reg /\ reg[n] # << >>

ScalarTag(n) ==
    CASE n \in {"UniqueIdentifier", "String"} -> "string"
      [] n = "Number" -> "number"
      [] n = "Boolean" -> "boolean"
      [] n = "Date" -> "datetime"
      [] OTHER -> ""

\* The enum values the graph compilers infer from an enum object, else << >>.
Neo4j_inferredEnum(options) ==
    IF IsEnumObject(options) THEN ObjectValues(options.type.name) ELSE << >>

Neo4j_type(reg, options) ==
    IF ~Has(options, "type") THEN "any"
    ELSE LET n == options.type.name
             objectLike == HasOwnMetadata(reg, n) \/ IsEmbeddable(n)
         IN  IF IsFunction(options) /\ ScalarTag(n) # "" THEN ScalarTag(n)
             ELSE IF IsArray(options)
             THEN IF ScalarTag(n) # "" THEN ScalarTag(n) \o "[]"
                  ELSE IF objectLike THEN "object[]" ELSE "any[]"
             ELSE IF IsEnumObject(options)
             THEN IF ObjectValues(n) = << >> THEN "any"
                  ELSE IF SomeNumeric(ObjectValues(n)) THEN "number" ELSE "string"
             ELSE IF n = "Object" THEN "object"
             ELSE IF objectLike THEN "object" ELSE "any"

\* nodeSchema.properties[propertyKey] = { type, isIdentifier, unique, ... }
Neo4j_property(reg, options) ==
    LET inferred == Neo4j_inferredEnum(options)
        withEnum == IF inferred # << >> THEN Spread(options, [enum |-> inferred])
                    ELSE options
    IN  Spread([type |-> Neo4j_type(reg, options)],
               [f \in (DOMAIN withEnum) \cap
                      {"isIdentifier", "unique", "optional", "enum", "default"}
                   |-> withEnum[f]])

RECURSIVE Neo4j_properties(_, _, _)
Neo4j_properties(reg, metadata, props) ==
    IF metadata = << >> THEN props
    ELSE Neo4j_properties(reg, Tail(metadata),
            (Head(metadata).propertyKey :> Neo4j_property(reg, Head(metadata)))
            @@ props)

\* metadata.find(p => p.isIdentifier): its index, or 0.
FindIdentifier(metadata) ==
    IF \E i \in 1..Len(metadata) : IsTrue(metadata[i], "isIdentifier")
    THEN CHOOSE i \in 1..Len(metadata) :
            /\ IsTrue(metadata[i], "isIdentifier")
            /\ \A j \in 1..(i - 1) : ~IsTrue(metadata[j], "isIdentifier")
    ELSE 0

Without(f, k) == [x \in (DOMAIN f) \ {k} |-> f[x]]

\* The identifier fix-up that ends Neo4jSchema.extract.
Neo4j_markIdentifier(metadata, props) ==
    LET i == FindIdentifier(metadata)
    IN  IF i # 0
        THEN LET key == metadata[i].propertyKey
             IN  IF key = "_id"
                 THEN ("id" :> Spread([type |-> "string", isIdentifier |-> TRUE,
                                       unique |-> TRUE, optional |-> FALSE],
                                      IF Has(props[key], "default")
                                      THEN [default |-> props[key].default]
                                      ELSE << >>))
                      @@ Without(props, key)
                 ELSE (key :> Spread(props[key],
                                     [isIdentifier |-> TRUE, unique |-> TRUE]))
                      @@ props
        ELSE IF "id" \in DOMAIN props
        THEN ("id" :> Spread(props["id"], [isIdentifier |-> TRUE, unique |-> TRUE]))
             @@ props
        ELSE props

\* (relOptions.target as Function)() : the class a thunk returns.
ResolveTarget(rel) == rel.target

\* The call above applied to a class given directly: a class constructor
\* invoked without new, a TypeError.
Neo4j_callsClass(metadata) ==
    \E i \in 1..Len(metadata) :
        Has(metadata[i], "relationship") /\ ~metadata[i].relationship.lazy

RelationshipTriple(c, rel) == <<c, rel.type, ResolveTarget(rel)>>

RECURSIVE Neo4j_relationships(_, _, _)
\* One descriptor per (source, type, target) not seen before.
Neo4j_relationships(c, metadata, rels) ==
    IF metadata = << >> THEN rels
    ELSE LET p == Head(metadata)
             seen == Has(p, "relationship") /\
                     \E i \in 1..Len(rels) :
                        <<rels[i].sourceLabel, rels[i].type, rels[i].targetLabel>>
                            = RelationshipTriple(c, p.relationship)
         IN  Neo4j_relationships(c, Tail(metadata),
                IF Has(p, "relationship") /\ ~seen
                THEN Append(rels,
                        [sourceLabel |-> c,
                         targetLabel |-> ResolveTarget(p.relationship),
                         type |-> p.relationship.type,
                         edgeProperties |->
                            IF Has(p.relationship, "properties")
                            THEN p.relationship.properties ELSE << >>,
                         direction |->
                            IF Has(p.relationship, "direction")
                            THEN p.relationship.direction ELSE "OUTGOING"])
                ELSE rels)

Neo4jSchema_extract(reg, c) ==
    LET metadata == getDatabaseSchemaMetadata(reg, c)
    IN  IF Neo4j_callsClass(metadata) THEN [error |-> "TypeError"]
        ELSE [label |-> c,
              properties |-> Neo4j_markIdentifier(metadata,
                                 Neo4j_properties(reg, metadata, << >>)),
              relationships |-> Neo4j_relationships(c, metadata, << >>)]

(***************************************************************************)
(* neo4j.schema.ts : Neo4jSchema.extractSchema, the graph compiler kept    *)
(* beside Neo4jSchema.extract.  The node properties are typed alike; the   *)
(* target label is read from relOptions.target.name without calling the    *)
(* target, and the identifier fix-up keeps the identifier's key.           *)
(***************************************************************************)
\* The name of the arrow function written as the value of the option "target".
ThunkName == "target"

\* relOptions.target.name
TargetName(rel) == IF rel.lazy THEN ThunkName ELSE rel.target

RECURSIVE Neo4j_relationshipsByName(_, _, _)
Neo4j_relationshipsByName(c, metadata, rels) ==
    IF metadata = << >> THEN rels
    ELSE LET p == Head(metadata)
             seen == Has(p, "relationship") /\
                     \E i \in 1..Len(rels) :
                        <<rels[i].sourceLabel, rels[i].type, rels[i].targetLabel>>
                            = <<c, p.relationship.type, TargetName(p.relationship)>>
         IN  Neo4j_relationshipsByName(c, Tail(metadata),
                IF Has(p, "relationship") /\ ~seen
                THEN Append(rels,
                        [sourceLabel |-> c,
                         targetLabel |-> TargetName(p.relationship),
                         type |-> p.relationship.type,
                         edgeProperties |->
                            IF Has(p.relationship, "properties")
                            THEN p.relationship.properties ELSE << >>,
                         direction |->
                            IF Has(p.relationship, "direction")
                            THEN p.relationship.direction ELSE "OUTGOING"])
                ELSE rels)

\* The identifier fix-up that ends Neo4jSchema.extractSchema.
Neo4j_markIdentifierInPlace(metadata, props) ==
    LET i == FindIdentifier(metadata)
        mark(k) == (k :> Spread(props[k], [isIdentifier |-> TRUE, unique |-> TRUE]))
                   @@ props
    IN  IF i # 0 THEN
            LET key == metadata[i].propertyKey
            IN  (key :> Spread(IF key \in DOMAIN props THEN props[key] ELSE << >>,
                               [isIdentifier |-> TRUE, unique |-> TRUE])) @@ props
        ELSE IF "id" \in DOMAIN props THEN mark("id")
        ELSE IF "_id" \in DOMAIN props THEN mark("_id")
        ELSE props

Neo4jSchema_extractSchema(reg, c) ==
    LET metadata == getDatabaseSchemaMetadata(reg, c)
    IN  [label |-> c,
         properties |-> Neo4j_markIdentifierInPlace(metadata,
                            Neo4j_properties(reg, metadata, << >>)),
         relationships |-> Neo4j_relationshipsByName(c, metadata, << >>)]

(***************************************************************************)
(* postgres.schema.ts : PostgresSchema.extract, the relational compiler.   *)
(***************************************************************************)
EmptyEntity(c) == [name |-> "EmptyEntity", target |-> c, columns |-> << >>]

\* columnType of a property that carries no relationship.
Postgres_columnType(metadata) ==
    IF ~Has(metadata, "type") THEN "String"
    ELSE LET n == metadata.type.name
         IN  IF PrimitiveOf(metadata) # ""
             THEN PrimitiveOf(metadata)
             ELSE IF IsEnumObject(metadata) /\ ObjectValues(n) # << >>
             THEN IF SomeNumeric(ObjectValues(n)) THEN "Number" ELSE "String"
             ELSE IF (IsFunction(metadata) \/ IsArray(metadata)) /\ IsEmbeddable(n)
             THEN "jsonb"
             ELSE IF IsFunction(metadata) /\ n \in {"String", "Number", "Boolean", "Date"}
             THEN n
             ELSE IF IsFunction(metadata) /\ n = "Object" THEN "jsonb"
             ELSE IF IsArray(metadata)
             THEN IF IsEnumerationClass(n) THEN "String" ELSE "simple-array"
             ELSE "String"

\* The enum values inferred from an enum object, else << >>.
Postgres_inferredEnum(metadata) ==
    IF IsEnumObject(metadata) /\ PrimitiveOf(metadata) = ""
    THEN ObjectValues(metadata.type.name) ELSE << >>

\* The default survives unless the column is a String identifier that is not
\* a mapped domain primitive.
Postgres_default(metadata, columnType) ==
    IF Has(metadata, "default") /\
       (PrimitiveOf(metadata) # "" \/
        ~(IsTrue(metadata, "isIdentifier") /\ columnType = "String"))
    THEN [default |-> metadata.default] ELSE << >>

Postgres_enum(metadata) ==
    IF Has(metadata, "enum") THEN [enum |-> metadata.enum]
    ELSE IF Postgres_inferredEnum(metadata) # << >>
    THEN [enum |-> Postgres_inferredEnum(metadata)]
    ELSE << >>

Postgres_column(metadata) ==
    LET columnType == Postgres_columnType(metadata)
    IN  Spread(Spread(Spread(Spread(
            [type |-> columnType],
            Postgres_default(metadata, columnType)),
            Postgres_enum(metadata)),
            IF IsTrue(metadata, "isIdentifier")
            THEN [primary |-> TRUE, unique |-> TRUE]
            ELSE IF IsTrue(metadata, "unique") THEN [unique |-> TRUE] ELSE << >>),
            IF Has(metadata, "optional") THEN [nullable |-> metadata.optional]
            ELSE << >>)

Cardinalities == {"one-to-one", "one-to-many", "many-to-one", "many-to-many"}

\* { name: columns[0] }; the name is undefined for an empty list.
Postgres_joinColumnName(columns) ==
    IF Len(columns) >= 1 THEN [name |-> columns[1]] ELSE << >>

\* The join configuration as it would read if the owner flag were not tested.
Postgres_join_anySide(rel) ==
    IF rel.cardinality \in {"one-to-one", "many-to-one"}
    THEN [joinColumn |-> IF Has(rel, "columns") THEN Postgres_joinColumnName(rel.columns)
                         ELSE [default |-> TRUE]]
    ELSE IF rel.cardinality = "many-to-many"
    THEN [joinTable |-> IF Has(rel, "table") THEN [name |-> rel.table]
                        ELSE [default |-> TRUE]]
    ELSE << >>

\* joinColumn / joinTable of the owning side.  A join column or join table
\* left to the ORM default is the value true, which spreads to nothing.
Postgres_join(rel) ==
    IF ~IsTrue(rel, "owner") THEN << >>
    ELSE IF rel.cardinality \in {"one-to-one", "many-to-one"}
    THEN [joinColumn |-> IF Has(rel, "columns") THEN Postgres_joinColumnName(rel.columns)
                         ELSE [default |-> TRUE]]
    ELSE IF rel.cardinality = "many-to-many"
    THEN [joinTable |->
            IF Has(rel, "columns") /\ Len(rel.columns) >= 2
            THEN Spread(IF Has(rel, "table") THEN [name |-> rel.table] ELSE << >>,
                        [joinColumn |-> [name |-> rel.columns[1]],
                         inverseJoinColumn |-> [name |-> rel.columns[2]]])
            ELSE IF Has(rel, "table") THEN [name |-> rel.table]
            ELSE [default |-> TRUE]]
    ELSE << >>

Postgres_relation(rel) ==
    Spread(Spread([target |-> rel.target, type |-> rel.cardinality],
                  [f \in (DOMAIN rel) \cap {"inverse", "cascade", "eager"} |-> rel[f]]),
           Postgres_join(rel))

RECURSIVE Postgres_walk(_, _)
\* forEach over the merged metadata; acc is [columns, relations].
Postgres_walk(metadata, acc) ==
    IF metadata = << >> THEN acc
    ELSE LET m == Head(metadata)
             key == m.propertyKey
             finalKey == IF IsTrue(m, "isIdentifier") /\ key = "_id" THEN "id" ELSE key
         IN  Postgres_walk(Tail(metadata),
                IF Has(m, "relationship")
                THEN IF Has(m.relationship, "cardinality") /\
                        m.relationship.cardinality \in Cardinalities
                     THEN [acc EXCEPT !.relations =
                            (key :> Postgres_relation(m.relationship)) @@ @]
                     ELSE acc
                ELSE [acc EXCEPT !.columns = (finalKey :> Postgres_column(m)) @@ @])

\* The id and name columns preset for a class that extends Enumeration.
Postgres_enumerationColumns(c) ==
    IF InstanceOf(c, "Enumeration")
    THEN ("id" :> [type |-> "Number"]) @@ ("name" :> [type |-> "String"])
    ELSE << >>

PostgresSchema_extract(reg, c, depth) ==
    IF BeyondLimit(c, depth) THEN EmptyEntity(c)
    ELSE LET acc == Postgres_walk(getDatabaseSchemaMetadata(reg, c),
                        [columns |-> Postgres_enumerationColumns(c),
                         relations |-> << >>])
         IN  [name |-> c, target |-> c,
              columns |-> acc.columns, relations |-> acc.relations]

(***************************************************************************)
(* postgres.schema.ts : PostgresSchema.getTypeOrmEntity, the relational    *)
(* compiler's earlier entrypoint: relationship properties are skipped, an  *)
(* identifier is primary only, and keys are kept as declared.              *)
(***************************************************************************)
TypeOrm_column(metadata) ==
    LET columnType == Postgres_columnType(metadata)
    IN  Spread(Spread(Spread(Spread(Spread(
            [type |-> columnType],
            Postgres_default(metadata, columnType)),
            Postgres_enum(metadata)),
            IF IsTrue(metadata, "unique") THEN [unique |-> TRUE] ELSE << >>),
            IF IsTrue(metadata, "isIdentifier") THEN [primary |-> TRUE] ELSE << >>),
            IF Has(metadata, "optional") THEN [nullable |-> metadata.optional]
            ELSE << >>)

RECURSIVE TypeOrm_walk(_, _)
TypeOrm_walk(metadata, columns) ==
    IF metadata = << >> THEN columns
    ELSE TypeOrm_walk(Tail(metadata),
            IF Has(Head(metadata), "relationship") THEN columns
            ELSE (Head(metadata).propertyKey :> TypeOrm_column(Head(metadata)))
                 @@ columns)

PostgresSchema_getTypeOrmEntity(reg, c, depth) ==
    IF BeyondLimit(c, depth) THEN EmptyEntity(c)
    ELSE [name |-> c, target |-> c,
          columns |-> TypeOrm_walk(getDatabaseSchemaMetadata(reg, c),
                                   Postgres_enumerationColumns(c))]

(***************************************************************************)
(* Registrations.                                                          *)
(*                                                                         *)
(* own[c] is the array stored under DatabaseSchemaMetadataKey on class c.  *)
(* declared[c] is a history of the registrations made on c: for each key   *)
(* the options registered for it, a later registration spread over the     *)
(* earlier ones.  No operation reads it; the claims about what a level     *)
(* declares are stated against it.                                         *)
(***************************************************************************)
Declare(d, k, options) ==
    (k :> Spread(IF k \in DOMAIN d THEN d[k] ELSE << >>, options)) @@ d

RECURSIVE DeclareAll(_, _)
DeclareAll(d, props) ==
    IF props = << >> THEN d
    ELSE DeclareAll(Declare(d, Head(props).propertyKey, Head(props)), Tail(props))

Registered(c, props, d) ==
    /\ own' = [own EXCEPT ![c] = props]
    /\ declared' = [declared EXCEPT ![c] = d]
    /\ nregs' = nregs + 1
    /\ out' = << >>
    /\ UNCHANGED repository

\* @DatabaseSchema(options) on property k of class c.
DatabaseSchemaPush(props, k, options) ==
    Append(props, Spread([propertyKey |-> k], options))

DatabaseSchema(c, k, options) ==
    Registered(c, DatabaseSchemaPush(own[c], k, options),
               Declare(declared[c], k, Spread([propertyKey |-> k], options)))

\* @RelationshipProperty(options) on property k of class c.
RelationshipPropertySet(props, k, options) ==
    IF KeyIndex(props, k) # 0
    THEN [props EXCEPT ![KeyIndex(props, k)] =
            Spread(props[KeyIndex(props, k)], [relationship |-> options])]
    ELSE Append(props, [propertyKey |-> k, relationship |-> options])

RelationshipProperty(c, k, options) ==
    Registered(c, RelationshipPropertySet(own[c], k, options),
               Declare(declared[c], k, [propertyKey |-> k, relationship |-> options]))

\* defineSchema(c, schemaDefinition); the definition is given as the list of
\* its entries in key order.
defineSchemaMerge(existing, properties) ==
    MergeAll(SetAll(<< >>, existing), properties)

defineSchema(c, properties) ==
    Registered(c, defineSchemaMerge(own[c], properties),
               DeclareAll(declared[c], properties))

(***************************************************************************)
(* The compile entrypoints as operations: the artifact returned by the     *)
(* last call is kept in out until the next operation.                      *)
(***************************************************************************)
Call(fn, c, depth, result) ==
    /\ out' = [fn |-> fn, class |-> c, depth |-> depth, result |-> result]
    /\ UNCHANGED <<own, declared, nregs>>
    /\ UNCHANGED repository

CompileDocument(c, depth) ==
    Call("MongoSchema.extract", c, depth, MongoSchema_extract(own, c, depth))

CompileDocumentRepository(c, depth) ==
    Call("Mongo.Schema", c, depth, Mongo_Schema(own, c, depth))

CompileGraph(c) ==
    Call("Neo4jSchema.extract", c, 0, Neo4jSchema_extract(own, c))

CompileRelational(c, depth) ==
    Call("PostgresSchema.extract", c, depth, PostgresSchema_extract(own, c, depth))

CompileTypeOrmEntity(c, depth) ==
    Call("PostgresSchema.getTypeOrmEntity", c, depth,
         PostgresSchema_getTypeOrmEntity(own, c, depth))

CompileGraphSchema(c) ==
    Call("Neo4jSchema.extractSchema", c, 0, Neo4jSchema_extractSchema(own, c))

(***************************************************************************)
(* Inputs.  The fixture classes Addr (a value object) and Color (an        *)
(* Enumeration class) are registered when their module is loaded; Base,    *)
(* Derived (entities) and Plain (no domain base) are registered by the     *)
(* operations.                                                             *)
(***************************************************************************)
\* A relationship to a target class, given as a thunk (lazy) or directly.
Rel(target, lazy) ==
    [type |-> "HAS", target |-> target, lazy |-> lazy]

\* The options a property key may be registered with on class c.
OptionsOf(c, k) ==
    CASE k = "opt" ->
            IF c = "Derived"
            THEN { [type |-> Ctor("Number"), optional |-> FALSE],
                   [unique |-> TRUE] }
            ELSE { [type |-> Ctor("Number"), optional |-> TRUE],
                   [type |-> Ctor("String"), unique |-> TRUE] }
      [] k = "updatedAt" ->
            IF c = "Derived"
            THEN { [type |-> Ctor("Date"), optional |-> FALSE] }
            ELSE { [type |-> Ctor("Date"), optional |-> TRUE] }
      [] k = "id" ->
            { [type |-> Ctor("String"), isIdentifier |-> TRUE],
              [type |-> Ctor("UniqueIdentifier"), unique |-> TRUE,
               isIdentifier |-> TRUE] }
      [] k = "status" ->
            { [type |-> EnumObj("BasicEnum"), enum |-> <<"A", "B">>],
              [type |-> EnumObj("BasicNumericEnum")],
              [type |-> Ctor("String"), enum |-> <<"A", "B">>] }
      [] k = "items" ->
            { [type |-> ArrayOf("String")],
              [type |-> ArrayOf("UniqueIdentifier")],
              [type |-> ArrayOf("Color")],
              [type |-> ArrayOf("Addr")],
              [type |-> ArrayOf("Base")] }
      [] OTHER -> {}

\* The property keys each class declares.
KeysOf(c) ==
    CASE c = "Base" -> {"opt", "updatedAt", "id", "items"}
      [] c = "Derived" -> {"opt", "updatedAt", "items"}
      [] c = "Plain" -> {"id", "status", "items"}
      [] OTHER -> {}

\* The schema definitions handed to defineSchema: one key, or two.
Definitions(c) ==
    { <<Spread([propertyKey |-> "opt"], o)>> :
        o \in IF "opt" \in KeysOf(c) THEN OptionsOf(c, "opt") ELSE {} }
    \cup
    { << Spread([propertyKey |-> "id"], o),
         [propertyKey |-> "name", type |-> Ctor("String")] >> :
        o \in IF "id" \in KeysOf(c) THEN OptionsOf(c, "id") ELSE {} }

RegistryInit ==
    /\ own = [c \in UserClasses |->
                CASE c = "Addr" ->
                        << [propertyKey |-> "value", type |-> Ctor("String")],
                           [propertyKey |-> "count", type |-> Ctor("Number"),
                            optional |-> TRUE] >>
                  [] c = "Color" ->
                        << [propertyKey |-> "name", type |-> Ctor("String")],
                           [propertyKey |-> "id", type |-> Ctor("Number")] >>
                  [] OTHER -> << >>]
    /\ declared = [c \in RegClasses |-> << >>]
    /\ nregs = 0
    /\ out = << >>

Init == RegistryInit /\ NoRepository

(***************************************************************************)
(* The registry alone: every registration on every key.                    *)
(***************************************************************************)
RegisterProperty ==
    \E c \in RegClasses : \E k \in KeysOf(c) \ {"items"} : \E o \in OptionsOf(c, k) :
        DatabaseSchema(c, k, o)

RegisterRelationship ==
    \E c \in {"Base", "Derived"} : \E lazy \in BOOLEAN :
        RelationshipProperty(c, "opt", Rel("Plain", lazy))

RegisterBulk ==
    \E c \in RegClasses : \E d \in Definitions(c) : defineSchema(c, d)

NextRegistry ==
    \/ nregs < MaxRegs /\ RegisterProperty
    \/ nregs < MaxRegs /\ RegisterRelationship
    \/ nregs < MaxRegs /\ RegisterBulk

SpecRegistry == Init /\ [][NextRegistry]_vars

(***************************************************************************)
(* Registrations followed by the compile entrypoints at depth 0.           *)
(***************************************************************************)
RegisterAny ==
    \E c \in RegClasses : \E k \in KeysOf(c) : \E o \in OptionsOf(c, k) :
        DatabaseSchema(c, k, o)

RegisterItemsRelationship ==
    \E lazy \in BOOLEAN : RelationshipProperty("Derived", "items", Rel("Plain", lazy))

Compile ==
    \E c \in RegClasses :
        \/ CompileDocument(c, 0)
        \/ CompileDocumentRepository(c, 0)
        \/ CompileGraph(c)
        \/ CompileRelational(c, 0)
        \/ CompileTypeOrmEntity(c, 0)

Next ==
    \/ nregs < MaxCompileRegs /\ RegisterAny
    \/ nregs < MaxCompileRegs /\ RegisterItemsRelationship
    \/ nregs < MaxCompileRegs /\ RegisterBulk
    \/ Compile

Spec == Init /\ [][Next]_vars

(***************************************************************************)
(* Self-referential embedded properties, compiled by the document and the  *)
(* relational entrypoints called with every second argument up to one      *)
(* past the limit.                                                         *)
(***************************************************************************)
Depths == 0..(DepthLimit + 1)

EntityClasses == {"Base", "Derived"}

\* child: the class itself (DeepEntity), an array of it, or the base class.
ChildOptions(c) ==
    IF c = "Base"
    THEN { [type |-> Ctor("Base"), optional |-> TRUE], [type |-> ArrayOf("Base")] }
    ELSE { [type |-> Ctor("Derived"), optional |-> TRUE], [type |-> Ctor("Base")] }

RegisterChild ==
    \E c \in EntityClasses : \E o \in ChildOptions(c) : DatabaseSchema(c, "child", o)

RegisterSibling ==
    DatabaseSchema("Base", "opt", [type |-> Ctor("Number"), optional |-> TRUE])

CompileAtDepth ==
    \E c \in EntityClasses : \E depth \in Depths :
        \/ CompileDocument(c, depth)
        \/ CompileDocumentRepository(c, depth)
        \/ CompileRelational(c, depth)
        \/ CompileTypeOrmEntity(c, depth)

NextDepth ==
    \/ nregs < MaxDepthRegs /\ RegisterChild
    \/ nregs < MaxDepthRegs /\ RegisterSibling
    \/ CompileAtDepth

SpecDepth == Init /\ [][NextDepth]_vars

(***************************************************************************)
(* Properties.                                                             *)
(***************************************************************************)
Merged(c) == getDatabaseSchemaMetadata(own, c)

Keys(m) == { m[i].propertyKey : i \in 1..Len(m) }

Entry(m, k) == m[KeyIndex(m, k)]

\* What level c declares for key k: the registrations made on c, over the
\* base-abstraction properties injected at c.
LevelDeclaredKeys(c) ==
    (IF c \in RegClasses THEN DOMAIN declared[c] ELSE {})
    \cup Keys(DOMAIN_TYPE_MAPPINGS(c))

LevelDeclaredEntry(c, k) ==
    Spread(MapGet(DOMAIN_TYPE_MAPPINGS(c), k),
           IF c \in RegClasses /\ k \in DOMAIN declared[c] THEN declared[c][k]
           ELSE << >>)

\* The positions in Chain(c), derived first, of the levels that set field f of k.
SettingLevels(c, k, f) ==
    { i \in 1..Len(Chain(c)) : f \in DOMAIN LevelDeclaredEntry(Chain(c)[i], k) }

MostDerivedSetting(c, k, f) ==
    Chain(c)[CHOOSE i \in SettingLevels(c, k, f) :
                \A j \in SettingLevels(c, k, f) : i <= j]

Fields ==
    {"propertyKey", "type", "optional", "unique", "isIdentifier", "enum",
     "default", "isDomainAbstraction", "relationship"}

\* C1: for every class and every sequence of registrations, the merged
\* descriptor has exactly one entry for each key declared at some level of the
\* hierarchy, and each field of the entry has the value given by the
\* most-derived level that sets that field.
C1_MergedIsMostDerived ==
    \A c \in RegClasses :
        LET m == Merged(c)
        IN  /\ Keys(m) = UNION { LevelDeclaredKeys(Chain(c)[i]) : i \in 1..Len(Chain(c)) }
            /\ \A k \in Keys(m) :
                  /\ Cardinality({ i \in 1..Len(m) : m[i].propertyKey = k }) = 1
                  /\ DOMAIN Entry(m, k) = { f \in Fields : SettingLevels(c, k, f) # {} }
                  /\ \A f \in DOMAIN Entry(m, k) :
                        SettingLevels(c, k, f) # {} =>
                            Entry(m, k)[f] =
                                LevelDeclaredEntry(MostDerivedSetting(c, k, f), k)[f]

(***************************************************************************)
(* The artifact of the last compile call.                                  *)
(***************************************************************************)
DocFns == {"MongoSchema.extract", "Mongo.Schema"}

GraphFns == {"Neo4jSchema.extract"}

RelFns == {"PostgresSchema.extract", "PostgresSchema.getTypeOrmEntity"}

\* The last operation was a compile call, and it returned.
Compiled == out # << >> /\ "error" \notin DOMAIN out.result

\* The per-property entries of the artifact: fields, node properties, columns.
ArtifactEntries ==
    IF out.fn \in DocFns THEN out.result.obj
    ELSE IF out.fn \in GraphFns THEN out.result.properties
    ELSE out.result.columns

OptionalField == IF out.fn \in RelFns THEN "nullable" ELSE "optional"

CarriesOptional(k, v) ==
    /\ k \in DOMAIN ArtifactEntries
    /\ OptionalField \in DOMAIN ArtifactEntries[k]
    /\ ArtifactEntries[k][OptionalField] = v

DeclaresOptional(c, k, v) ==
    /\ k \in DOMAIN declared[c]
    /\ "relationship" \notin DOMAIN declared[c][k]
    /\ "optional" \in DOMAIN declared[c][k]
    /\ declared[c][k].optional = v

AllKeys == {"opt", "updatedAt", "id", "status", "items", "child", "name"}

\* C2: when the base class declares a key with optional=true and the derived
\* class re-declares it with optional=false, every artifact compiled for the
\* derived class carries optional=false (nullable=false) for the key, and every
\* artifact compiled for the base class carries optional=true, before or after
\* the derived registration.
C2_DerivedOptionalOverride ==
    Compiled =>
        \A k \in AllKeys :
            /\ (out.class = "Derived" /\ DeclaresOptional("Base", k, TRUE)
                    /\ DeclaresOptional("Derived", k, FALSE))
                  => CarriesOptional(k, FALSE)
            /\ (out.class = "Base" /\ DeclaresOptional("Base", k, TRUE))
                  => CarriesOptional(k, TRUE)

BaseAbstractionKeys == Keys(DOMAIN_TYPE_MAPPINGS("Entity"))

\* C3: for a class extending the entity base that explicitly declares a
\* base-abstraction key, the explicit options win: the merged descriptor and
\* the field emitted by the document compiler carry the explicit options.
C3_ExplicitBaseAbstractionWins ==
    \A c \in {"Base", "Derived"} :
        \A k \in BaseAbstractionKeys \cap DOMAIN declared[c] :
            /\ \A f \in DOMAIN declared[c][k] :
                  /\ f \in DOMAIN Entry(Merged(c), k)
                  /\ Entry(Merged(c), k)[f] = declared[c][k][f]
            /\ (Compiled /\ out.fn \in DocFns /\ out.class = c) =>
                  \A f \in (DOMAIN declared[c][k]) \cap {"optional", "unique", "default", "enum"} :
                      /\ k \in DOMAIN out.result.obj
                      /\ f \in DOMAIN out.result.obj[k]
                      /\ out.result.obj[k][f] = declared[c][k][f]

IdentifierCount(m) ==
    Cardinality({ i \in 1..Len(m) : IsTrue(m[i], "isIdentifier") })

\* C4: the merged descriptor of every hierarchy that declares properties has
\* exactly one property marked isIdentifier: never two, never none.
C4_ExactlyOneIdentifier ==
    \A c \in RegClasses :
        Merged(c) # << >> => IdentifierCount(Merged(c)) = 1

\* C5: every property of the merged descriptor with unique=true or
\* isIdentifier=true is emitted with unique=true in the document, the graph and
\* the relational artifact.  (The injected _id is left out: its key is renamed
\* by two of the compilers.)
C5_UniqueInEveryArtifact ==
    Compiled =>
        \A i \in 1..Len(Merged(out.class)) :
            LET p == Merged(out.class)[i]
            IN  (/\ p.propertyKey # "_id"
                 /\ ~Has(p, "relationship")
                 /\ (IsTrue(p, "unique") \/ IsTrue(p, "isIdentifier")))
                => /\ p.propertyKey \in DOMAIN ArtifactEntries
                   /\ IsTrue(ArtifactEntries[p.propertyKey], "unique")

(***************************************************************************)
(* Recursion depth.                                                        *)
(***************************************************************************)
\* Class c has an embedded property "child" of its own type (or an array of it).
SelfReferential(c) ==
    /\ IsEmbeddable(c)
    /\ "child" \in Keys(Merged(c))
    /\ Has(Entry(Merged(c), "child"), "type")
    /\ Entry(Merged(c), "child").type.kind \in {"ctor", "array"}
    /\ Entry(Merged(c), "child").type.name = c

IsPlaceholder(schema) == DOMAIN schema.obj = {} /\ schema._id = FALSE

\* The schema nested under the field "child" of a document schema, if any.
HasChildSchema(schema) ==
    /\ "child" \in DOMAIN schema.obj
    /\ LET def == schema.obj["child"]
       IN  \/ def.shape = "schema"
           \/ def.shape = "arr" /\ def.item.kind = "schema"
           \/ def.shape = "obj" /\ "type" \in DOMAIN def /\ def.type.kind = "schemaArray"

ChildSchema(schema) ==
    LET def == schema.obj["child"]
    IN  IF def.shape = "schema" THEN def.schema
        ELSE IF def.shape = "arr" THEN def.item.schema
        ELSE def.type.schema

RECURSIVE Levels(_)
\* The number of non-empty schemas nested along "child", the outermost included.
Levels(schema) ==
    IF DOMAIN schema.obj = {} THEN 0
    ELSE IF ~HasChildSchema(schema) THEN 1
    ELSE 1 + Levels(ChildSchema(schema))

SelfReferentialCall(fns) ==
    Compiled /\ out.fn \in fns /\ SelfReferential(out.class)

\* C6: with the limit L = 5, compiling a self-referential embedded class with
\* the document or the relational compiler at depth L returns a non-empty
\* schema holding the class's fields, the self-referential child being the
\* placeholder (document) or a serialized column (relational); at depth L + 1
\* it returns the empty placeholder: no fields, no identifier, relational name
\* 'EmptyEntity'.
C6_LimitAndPlaceholder ==
    /\ (SelfReferentialCall(DocFns) /\ out.depth = DepthLimit) =>
          /\ DOMAIN out.result.obj = Keys(Merged(out.class))
          /\ out.result._id = TRUE
          /\ HasChildSchema(out.result)
          /\ IsPlaceholder(ChildSchema(out.result))
    /\ (SelfReferentialCall(RelFns) /\ out.depth = DepthLimit) =>
          /\ out.result.name = out.class
          /\ Cardinality(DOMAIN out.result.columns) = Len(Merged(out.class))
          /\ "child" \in DOMAIN out.result.columns
          /\ out.result.columns["child"].type = "jsonb"
    /\ (SelfReferentialCall(DocFns) /\ out.depth = DepthLimit + 1) =>
          IsPlaceholder(out.result)
    /\ (SelfReferentialCall(RelFns) /\ out.depth = DepthLimit + 1) =>
          /\ out.result.name = "EmptyEntity"
          /\ DOMAIN out.result.columns = {}
          /\ "relations" \notin DOMAIN out.result

\* A document compile at the limit: the class's fields around a placeholder child.
C6_Witness ==
    /\ SelfReferentialCall(DocFns)
    /\ out.depth = DepthLimit
    /\ Levels(out.result) = 1
    /\ IsPlaceholder(ChildSchema(out.result))

\* C7 as stated: the second argument m of the document compile entrypoints is
\* the limit, so that a self-referential class is expanded over the levels
\* 0..m at most and the placeholder stands beyond.
C7_SecondArgumentIsLimit ==
    SelfReferentialCall(DocFns) => Levels(out.result) <= out.depth + 1

\* C7 amended: the second argument d is the depth the compile starts from
\* (0 when omitted) and the limit stays 5: the document compilers expand a
\* self-referential class over the levels d..5, that is 6 - d schemas, the
\* placeholder standing beyond, and return the placeholder itself when d > 5;
\* the relational compilers return the class's entity when d <= 5 and the
\* empty entity when d > 5.
C7_SecondArgumentIsStartDepth ==
    /\ SelfReferentialCall(DocFns) =>
          Levels(out.result) =
              IF out.depth > DepthLimit THEN 0 ELSE DepthLimit + 1 - out.depth
    /\ SelfReferentialCall(RelFns) =>
          (out.result.name = "EmptyEntity") = (out.depth > DepthLimit)

\* A call with a second argument strictly between 0 and the limit that expands
\* more levels than the argument.
C7_Witness ==
    /\ SelfReferentialCall(DocFns)
    /\ out.depth > 0
    /\ out.depth < DepthLimit
    /\ Levels(out.result) = DepthLimit + 1 - out.depth
    /\ Levels(out.result) > out.depth + 1

(***************************************************************************)
(* Relationships, enums and arrays.                                        *)
(***************************************************************************)
\* C8: in the document artifact every property that carries a relationship
\* compiles to { type: [String] }, whatever declared type accompanies it.
C8_RelationshipIsReferenceList ==
    (Compiled /\ out.fn \in DocFns) =>
        \A i \in 1..Len(Merged(out.class)) :
            LET p == Merged(out.class)[i]
            IN  Has(p, "relationship") =>
                    /\ p.propertyKey \in DOMAIN out.result.obj
                    /\ out.result.obj[p.propertyKey].shape = "obj"
                    /\ "type" \in DOMAIN out.result.obj[p.propertyKey]
                    /\ out.result.obj[p.propertyKey].type = ArrayOf("String")

\* C9: a property registered with an explicit enum list E carries exactly E as
\* its enum constraint in the document, the graph and the relational artifact,
\* also when its declared type is an enum object.
C9_ExplicitEnumEverywhere ==
    Compiled =>
        \A i \in 1..Len(Merged(out.class)) :
            LET p == Merged(out.class)[i]
            IN  (Has(p, "enum") /\ ~Has(p, "relationship")) =>
                    /\ p.propertyKey \in DOMAIN ArtifactEntries
                    /\ "enum" \in DOMAIN ArtifactEntries[p.propertyKey]
                    /\ ArtifactEntries[p.propertyKey].enum = p.enum

\* A document type definition is a collection, and its element written as the
\* type definition of a scalar.
DocIsCollection(def) ==
    \/ def.shape = "arr"
    \/ def.shape = "obj" /\ "type" \in DOMAIN def
          /\ def.type.kind \in {"array", "schemaArray"}

DocElement(def) ==
    IF def.shape = "arr"
    THEN IF def.item.kind = "schema" THEN [shape |-> "schema", schema |-> def.item.schema]
         ELSE IF def.item.kind = "def" THEN def.item.def
         ELSE TypeObj(def.item)
    ELSE IF def.type.kind = "schemaArray"
    THEN [shape |-> "schema", schema |-> def.type.schema]
    ELSE TypeObj(Ctor(def.type.name))

\* What the compiler called last gives a scalar property of type T.
DocScalar(T) ==
    IF out.fn = "MongoSchema.extract"
    THEN MongoSchema_typeDefinition(own, [propertyKey |-> "x", type |-> Ctor(T)], out.depth)
    ELSE Mongo_typeDefinition(own, [propertyKey |-> "x", type |-> Ctor(T)], out.depth)

GraphCollections == {"string[]", "number[]", "boolean[]", "datetime[]", "object[]", "any[]"}

RelationalCollections == {"simple-array", "jsonb"}

\* C10: each backend compiles an array-of-T property to a collection whose
\* element is classified as the backend classifies a scalar T; an
\* array-of-string has a string element in all three; no array-of-T property
\* compiles to a non-collection scalar.
C10_ArrayLikeScalar ==
    Compiled =>
        \A i \in 1..Len(Merged(out.class)) :
            LET p == Merged(out.class)[i]
                k == p.propertyKey
            IN  (IsArray(p) /\ ~Has(p, "relationship")) =>
                    /\ k \in DOMAIN ArtifactEntries
                    /\ out.fn \in DocFns =>
                          /\ DocIsCollection(ArtifactEntries[k])
                          /\ DocElement(ArtifactEntries[k]) = DocScalar(p.type.name)
                    /\ out.fn \in GraphFns =>
                          /\ ArtifactEntries[k].type \in GraphCollections
                          /\ ArtifactEntries[k].type =
                                Neo4j_type(own, [propertyKey |-> k, type |-> Ctor(p.type.name)]) \o "[]"
                    /\ out.fn \in RelFns =>
                          ArtifactEntries[k].type \in RelationalCollections

(***************************************************************************)
(* Enum objects.                                                           *)
(***************************************************************************)
\* The scalar of an artifact entry, in the backend's own terms.
NumericScalar ==
    IF out.fn \in DocFns THEN Ctor("Number")
    ELSE IF out.fn \in GraphFns THEN "number" ELSE "Number"

StringScalar ==
    IF out.fn \in DocFns THEN Ctor("String")
    ELSE IF out.fn \in GraphFns THEN "string" ELSE "String"

\* C11: a property whose declared type is an enum object resolves in every
\* backend to a scalar with an enum list: a numeric scalar when the object has
\* numeric values, a string scalar when its values are strings.
C11_EnumObjectScalar ==
    Compiled =>
        \A i \in 1..Len(Merged(out.class)) :
            LET p == Merged(out.class)[i]
                k == p.propertyKey
            IN  (IsEnumObject(p) /\ ~Has(p, "relationship")) =>
                    /\ k \in DOMAIN ArtifactEntries
                    /\ "enum" \in DOMAIN ArtifactEntries[k]
                    /\ "type" \in DOMAIN ArtifactEntries[k]
                    /\ ArtifactEntries[k].type =
                          IF SomeNumeric(ObjectValues(p.type.name))
                          THEN NumericScalar ELSE StringScalar


(***************************************************************************)
(* Graph relationships: two classes that reference each other, compiled by *)
(* both graph compilers.                                                   *)
(***************************************************************************)
GraphClasses == {"Base", "Plain"}

GraphKeys == {"owner", "items"}

\* The relationship options of the graph specification: a target given as a
\* thunk or directly, with or without a direction and edge properties.
GraphRelOptions ==
    { Rel(t, lazy) : t \in GraphClasses, lazy \in BOOLEAN }
    \cup { Spread(Rel(t, TRUE), [direction |-> "INCOMING", properties |-> <<"since">>]) :
            t \in GraphClasses }

RegisterGraphRelationship ==
    \E c \in GraphClasses : \E k \in GraphKeys : \E o \in GraphRelOptions :
        RelationshipProperty(c, k, o)

RegisterGraphIdentifier ==
    \E c \in GraphClasses :
        DatabaseSchema(c, "id", [type |-> Ctor("String"), isIdentifier |-> TRUE])

CompileGraphs ==
    \E c \in GraphClasses :
        \/ CompileGraph(c)
        \/ CompileGraphSchema(c)

NextGraph ==
    \/ nregs < MaxCompileRegs /\ RegisterGraphRelationship
    \/ nregs < MaxCompileRegs /\ RegisterGraphIdentifier
    \/ CompileGraphs

SpecGraph == Init /\ [][NextGraph]_vars

AllGraphFns == {"Neo4jSchema.extract", "Neo4jSchema.extractSchema"}

GraphCall == out # << >> /\ out.fn \in AllGraphFns

\* The relationship properties of the merged metadata of c.
RelationshipProps(c) ==
    { i \in 1..Len(Merged(c)) : Has(Merged(c)[i], "relationship") }

DeclaredTriple(p) == <<p.relationship.type, p.relationship.target>>

DescriptorFor(c, p) ==
    [sourceLabel |-> c,
     targetLabel |-> p.relationship.target,
     type |-> p.relationship.type,
     edgeProperties |-> IF Has(p.relationship, "properties")
                        THEN p.relationship.properties ELSE << >>,
     direction |-> IF Has(p.relationship, "direction")
                   THEN p.relationship.direction ELSE "OUTGOING"]

\* C12: a graph compile emits one relationship descriptor per distinct
\* (source label, type, target label) triple declared by the relationship
\* properties of the class: every declared triple is present, no triple occurs
\* twice, and each descriptor carries the direction (default OUTGOING) and
\* edge properties (default empty) of a property declaring its triple.
C12_OneDescriptorPerTriple ==
    GraphCall =>
        /\ "relationships" \in DOMAIN out.result
        /\ LET rels == out.result.relationships
               c == out.class
           IN  /\ \A i \in RelationshipProps(c) :
                     \E j \in 1..Len(rels) :
                        /\ rels[j].sourceLabel = c
                        /\ <<rels[j].type, rels[j].targetLabel>>
                              = DeclaredTriple(Merged(c)[i])
               /\ \A i, j \in 1..Len(rels) :
                     <<rels[i].sourceLabel, rels[i].type, rels[i].targetLabel>>
                        = <<rels[j].sourceLabel, rels[j].type, rels[j].targetLabel>>
                     => i = j
               /\ \A j \in 1..Len(rels) :
                     \E i \in RelationshipProps(c) :
                        rels[j] = DescriptorFor(c, Merged(c)[i])

\* C13: whether a relationship target is written as the class itself or as a
\* thunk returning it, a graph compile of the declaring class completes and
\* the descriptor of the relationship is labelled with the target class name.
C13_TargetFormsAgree ==
    GraphCall =>
        /\ "error" \notin DOMAIN out.result
        /\ \A i \in RelationshipProps(out.class) :
              LET rel == Merged(out.class)[i].relationship
              IN  \E j \in 1..Len(out.result.relationships) :
                     /\ out.result.relationships[j].type = rel.type
                     /\ out.result.relationships[j].targetLabel = rel.target

\* Both classes declare a thunk relationship to the other.
RefersLazily(c, t) ==
    \E i \in 1..Len(own[c]) :
        /\ Has(own[c][i], "relationship")
        /\ own[c][i].relationship.lazy
        /\ own[c][i].relationship.target = t

MutuallyReferencing == RefersLazily("Base", "Plain") /\ RefersLazily("Plain", "Base")

\* C14: registration stores a thunk target unresolved, and once two classes
\* that reference each other by thunks are registered, in either order, a
\* graph compile of either one resolves the other class by its name.
C14_DeferredResolution ==
    /\ \A c \in GraphClasses : \A i \in 1..Len(own[c]) :
          Has(own[c][i], "relationship") =>
              own[c][i].relationship = declared[c][own[c][i].propertyKey].relationship
    /\ (GraphCall /\ MutuallyReferencing) =>
          /\ "error" \notin DOMAIN out.result
          /\ \E j \in 1..Len(out.result.relationships) :
                /\ out.result.relationships[j].sourceLabel = out.class
                /\ out.result.relationships[j].targetLabel
                      = (IF out.class = "Base" THEN "Plain" ELSE "Base")


(***************************************************************************)
(* Relational relationships: Base holds the reference ("user", to Plain)   *)
(* and Plain the collection ("orders", of Base), as OrderEntity and        *)
(* ComplexUserEntity do.                                                   *)
(***************************************************************************)
MaxRelRegs == 2

RelationalClasses == {"Base", "Plain"}

RelationalKey(c) == IF c = "Base" THEN "user" ELSE "orders"

RelationalTarget(c) == IF c = "Base" THEN "Plain" ELSE "Base"

CardinalityOptions(c) ==
    IF c = "Base"
    THEN { << >>, [cardinality |-> "many-to-one"], [cardinality |-> "one-to-one"] }
    ELSE { [cardinality |-> "one-to-many"], [cardinality |-> "many-to-many"] }

OwnerOptions == { << >>, [owner |-> FALSE], [owner |-> TRUE] }

JoinOptions(c) ==
    IF c = "Base"
    THEN { << >>, [columns |-> <<"userId">>] }
    ELSE { << >>, [columns |-> <<"userId">>],
           [columns |-> <<"userId", "productId">>],
           [table |-> "user_liked_products"],
           [table |-> "user_liked_products", columns |-> <<"userId", "productId">>] }

RelationalRelOptions(c) ==
    { Spread(Spread(Spread(Rel(RelationalTarget(c), TRUE), card), owner), join) :
        card \in CardinalityOptions(c), owner \in OwnerOptions, join \in JoinOptions(c) }

RegisterRelation ==
    \E c \in RelationalClasses : \E o \in RelationalRelOptions(c) :
        RelationshipProperty(c, RelationalKey(c), o)

\* The property of the relationship also declared with a type.
RegisterRelationType ==
    \E c \in RelationalClasses :
        DatabaseSchema(c, RelationalKey(c),
                       IF c = "Base" THEN [type |-> Ctor("String")]
                       ELSE [type |-> ArrayOf("Base")])

CompileRelations ==
    \E c \in RelationalClasses :
        \/ CompileRelational(c, 0)
        \/ CompileTypeOrmEntity(c, 0)

NextRelational ==
    \/ nregs < MaxRelRegs /\ RegisterRelation
    \/ nregs < MaxRelRegs /\ RegisterRelationType
    \/ CompileRelations

SpecRelational == Init /\ [][NextRelational]_vars

RelationalCall == Compiled /\ out.fn \in RelFns

Relations == IF "relations" \in DOMAIN out.result THEN out.result.relations ELSE << >>

\* C15: Base declares a many-to-one relationship to Plain on "user" and owns
\* it: the relational artifact of Base has a many-to-one relation for "user"
\* with a join column (the declared name, or the default) and no column
\* "user"; the relational artifact of Plain has no column for its inverse
\* relationship property "orders".
C15_ManyToOneOwningSide ==
    RelationalCall =>
        /\ (/\ out.class = "Base"
            /\ \E i \in RelationshipProps("Base") :
                  LET p == Merged("Base")[i]
                  IN  /\ p.propertyKey = "user"
                      /\ Has(p.relationship, "cardinality")
                      /\ p.relationship.cardinality = "many-to-one"
                      /\ IsTrue(p.relationship, "owner"))
           => /\ "user" \in DOMAIN Relations
              /\ Relations["user"].type = "many-to-one"
              /\ "joinColumn" \in DOMAIN Relations["user"]
              /\ Relations["user"].joinColumn =
                    (LET rel == Entry(Merged("Base"), "user").relationship
                     IN  IF Has(rel, "columns") THEN [name |-> rel.columns[1]]
                         ELSE [default |-> TRUE])
              /\ "user" \notin DOMAIN out.result.columns
        /\ (/\ out.class = "Plain"
            /\ \E i \in RelationshipProps("Plain") :
                  Merged("Plain")[i].propertyKey = "orders")
           => "orders" \notin DOMAIN out.result.columns

\* C16: in a relational artifact every property that carries a relationship
\* is exactly one relation keyed by the property name, of the declared
\* cardinality when one is declared, and is not a column; none is dropped.
C16_RelationshipIsOneRelation ==
    RelationalCall =>
        \A i \in RelationshipProps(out.class) :
            LET p == Merged(out.class)[i]
            IN  /\ p.propertyKey \in DOMAIN Relations
                /\ p.propertyKey \notin DOMAIN out.result.columns
                /\ Has(p.relationship, "cardinality") =>
                      Relations[p.propertyKey].type = p.relationship.cardinality

JoinFields == {"joinColumn", "joinTable"}

\* The join configuration the declaration of a relationship calls for.
DeclaredJoin(rel) ==
    IF ~IsTrue(rel, "owner") \/ rel.cardinality = "one-to-many" THEN << >>
    ELSE IF rel.cardinality \in {"one-to-one", "many-to-one"}
    THEN [joinColumn |-> IF Has(rel, "columns") THEN [name |-> rel.columns[1]]
                         ELSE [default |-> TRUE]]
    ELSE [joinTable |->
            IF ~Has(rel, "table") /\ ~(Has(rel, "columns") /\ Len(rel.columns) >= 2)
            THEN [default |-> TRUE]
            ELSE Spread(IF Has(rel, "table") THEN [name |-> rel.table] ELSE << >>,
                        IF Has(rel, "columns") /\ Len(rel.columns) >= 2
                        THEN [joinColumn |-> [name |-> rel.columns[1]],
                              inverseJoinColumn |-> [name |-> rel.columns[2]]]
                        ELSE << >>)]

\* C17: a relation descriptor of a relational artifact carries a join column
\* (one-to-one, many-to-one) or a join table (many-to-many) exactly when its
\* relationship is declared with owner set, named as declared or left to the
\* default; a relation of a side that is not the owner, and a one-to-many
\* relation, carries neither, whatever table or columns are declared.
C17_JoinOnlyOnOwningSide ==
    RelationalCall =>
        \A k \in DOMAIN Relations :
            LET rel == Entry(Merged(out.class), k).relationship
                join == [f \in (DOMAIN Relations[k]) \cap JoinFields |-> Relations[k][f]]
            IN  join = DeclaredJoin(rel)

C17_Witness ==
    /\ RelationalCall
    /\ \E k \in DOMAIN Relations :
          /\ "joinTable" \in DOMAIN Relations[k]
          /\ "joinColumn" \in DOMAIN Relations[k].joinTable
          /\ "name" \in DOMAIN Relations[k].joinTable
    /\ \E i \in 1..Len(Merged(out.class)) :
          /\ Merged(out.class)[i].propertyKey = "orders"
          /\ Has(Merged(out.class)[i], "type")


(***************************************************************************)
(* Bulk and repeated registration.                                         *)
(***************************************************************************)
\* The options of a definition entry, without its key and its relationship.
OptionsOfEntry(e) == [f \in (DOMAIN e) \ {"propertyKey", "relationship"} |-> e[f]]

RECURSIVE OneByOne(_, _)
\* The entries of a definition registered in order with @DatabaseSchema and,
\* for an entry that carries a relationship, @RelationshipProperty.
OneByOne(props, definition) ==
    IF definition = << >> THEN props
    ELSE LET e == Head(definition)
             k == e.propertyKey
             typed == IF OptionsOfEntry(e) # << >> \/ ~Has(e, "relationship")
                      THEN DatabaseSchemaPush(props, k, OptionsOfEntry(e))
                      ELSE props
         IN  OneByOne(IF Has(e, "relationship")
                      THEN RelationshipPropertySet(typed, k, e.relationship)
                      ELSE typed,
                      Tail(definition))

\* C18: from any registered state, one defineSchema call on a class gives
\* that class and every other class the same merged metadata as registering
\* the entries of the definition one by one, in order, with the decorators.
C18_BulkEqualsOneByOne ==
    \A c \in RegClasses : \A d \in Definitions(c) :
        LET bulk == [own EXCEPT ![c] = defineSchemaMerge(own[c], d)]
            single == [own EXCEPT ![c] = OneByOne(own[c], d)]
        IN  \A x \in RegClasses :
                getDatabaseSchemaMetadata(bulk, x) = getDatabaseSchemaMetadata(single, x)

\* C19: a registration that repeats options already declared for its key on
\* its class leaves the merged metadata of every class as it was: the key
\* keeps one entry, at the same position.
C19_RegistrationIdempotent ==
    [][(nregs' = nregs + 1 /\ declared' = declared) =>
          \A x \in RegClasses :
              getDatabaseSchemaMetadata(own', x) = getDatabaseSchemaMetadata(own, x)]_vars


(***************************************************************************)
(* Assignments made while compiling.  MongoSchema.extract replaces the     *)
(* type of an array property of identifiers or embedded objects, and both  *)
(* graph compilers set the enum of an enum-object property, on the         *)
(* metadata objects handed to them by getDatabaseSchemaMetadata.           *)
(***************************************************************************)
MaxPureRegs == 2

\* As if the merge stored the registered object itself for a key of the class.
SharesRegistered_stored(reg, c, k) == KeyIndex(OwnMetadata(reg, c), k) # 0

\* Whether the metadata object of key k handed out for class c is the
\* registered one: the final merge builds a new object for every key.
SharesRegistered(reg, c, k) == FALSE

RECURSIVE MongoSchema_assignments(_)
\* options.type = [String] / options.type = [schema of the element]
MongoSchema_assignments(props) ==
    IF props = << >> THEN << >>
    ELSE LET p == Head(props)
             rest == MongoSchema_assignments(Tail(props))
         IN  IF IsArray(p) /\ p.type.name = "UniqueIdentifier"
             THEN <<[propertyKey |-> p.propertyKey, type |-> ArrayOf("String")]>> \o rest
             ELSE IF IsArray(p) /\ IsEmbeddable(p.type.name)
             THEN <<[propertyKey |-> p.propertyKey, type |-> ArrayOf("Schema")]>> \o rest
             ELSE rest

MongoSchema_assigned(reg, c, depth) ==
    IF BeyondLimit(c, depth) THEN << >>
    ELSE MongoSchema_assignments(getDatabaseSchemaMetadata(reg, c))

\* The same assignments reaching the objects of DOMAIN_TYPE_MAPPINGS, which
\* allProps holds as they are.
MongoSchema_assignedDomain(c, depth) ==
    IF BeyondLimit(c, depth) THEN << >>
    ELSE MongoSchema_assignments(DomainBaseProps(c))

RECURSIVE Neo4j_assignments(_)
\* propertyOptions.enum = enumValues
Neo4j_assignments(props) ==
    IF props = << >> THEN << >>
    ELSE LET p == Head(props)
             rest == Neo4j_assignments(Tail(props))
         IN  IF IsEnumObject(p) /\ ObjectValues(p.type.name) # << >>
             THEN <<[propertyKey |-> p.propertyKey,
                     enum |-> ObjectValues(p.type.name)]>> \o rest
             ELSE rest

Neo4j_assigned(reg, c) == Neo4j_assignments(getDatabaseSchemaMetadata(reg, c))

RECURSIVE WriteBack(_, _, _)
\* The registry after the assignments: one reaches a registered object only
\* if the metadata object assigned to is that object.
WriteBack(reg, c, assigned) ==
    IF assigned = << >> THEN reg
    ELSE LET a == Head(assigned)
             k == a.propertyKey
             i == KeyIndex(OwnMetadata(reg, c), k)
         IN  WriteBack(IF SharesRegistered(reg, c, k) /\ i # 0
                       THEN [reg EXCEPT ![c] = [@ EXCEPT ![i] = Spread(@, a)]]
                       ELSE reg,
                       c, Tail(assigned))

CallAssigning(fn, c, depth, result, assigned) ==
    /\ out' = [fn |-> fn, class |-> c, depth |-> depth, result |-> result]
    /\ own' = WriteBack(own, c, assigned)
    /\ UNCHANGED <<declared, nregs>>
    /\ UNCHANGED repository

CompileDocumentAssigning(c, depth) ==
    CallAssigning("MongoSchema.extract", c, depth, MongoSchema_extract(own, c, depth),
                  MongoSchema_assigned(own, c, depth))

CompileGraphAssigning(c) ==
    CallAssigning("Neo4jSchema.extract", c, 0, Neo4jSchema_extract(own, c),
                  Neo4j_assigned(own, c))

CompileGraphSchemaAssigning(c) ==
    CallAssigning("Neo4jSchema.extractSchema", c, 0, Neo4jSchema_extractSchema(own, c),
                  Neo4j_assigned(own, c))

PureClasses == {"Base", "Plain"}

PureOptions(k) ==
    IF k = "items"
    THEN { [type |-> ArrayOf("UniqueIdentifier")], [type |-> ArrayOf("Addr")],
           [type |-> ArrayOf("String")] }
    ELSE { [type |-> EnumObj("BasicNumericEnum")], [type |-> EnumObj("BasicEnum")] }

RegisterPure ==
    \E c \in PureClasses : \E k \in {"items", "status"} : \E o \in PureOptions(k) :
        DatabaseSchema(c, k, o)

CompilePure ==
    \E c \in PureClasses :
        \/ CompileDocumentAssigning(c, 0)
        \/ CompileDocumentRepository(c, 0)
        \/ CompileGraphAssigning(c)
        \/ CompileGraphSchemaAssigning(c)
        \/ CompileRelational(c, 0)
        \/ CompileTypeOrmEntity(c, 0)

NextPure ==
    \/ nregs < MaxPureRegs /\ RegisterPure
    \/ CompilePure

SpecPure == Init /\ [][NextPure]_vars

\* The artifact a compile entrypoint returns from a registry.
Artifact(reg, fn, c, depth) ==
    CASE fn = "MongoSchema.extract" -> MongoSchema_extract(reg, c, depth)
      [] fn = "Mongo.Schema" -> Mongo_Schema(reg, c, depth)
      [] fn = "Neo4jSchema.extract" -> Neo4jSchema_extract(reg, c)
      [] fn = "Neo4jSchema.extractSchema" -> Neo4jSchema_extractSchema(reg, c)
      [] fn = "PostgresSchema.extract" -> PostgresSchema_extract(reg, c, depth)
      [] fn = "PostgresSchema.getTypeOrmEntity" ->
            PostgresSchema_getTypeOrmEntity(reg, c, depth)

NeverRegistered(reg, c) ==
    /\ \A i \in 1..Len(Chain(c)) : OwnMetadata(reg, Chain(c)[i]) = << >>
    /\ getDatabaseSchemaMetadata(reg, c) = << >>

\* The compile call ended by raising the named error.  The compile
\* entrypoints have no throw statement; the one error a call can end with is
\* the TypeError of the graph compiler calling a class as a thunk.
Raised(call, error) ==
    /\ "error" \in DOMAIN call.result
    /\ call.result.error = error

\* C25: compiling a class that was never registered (no declaration on it or
\* on its ancestors) raises MetadataMissingError instead of returning an
\* empty or incomplete schema.
C25_UnregisteredRaises ==
    (out # << >> /\ NeverRegistered(own, out.class))
        => Raised(out, "MetadataMissingError")

(***************************************************************************)
(* The frame of defineSchema.                                              *)
(***************************************************************************)
\* The merged entries a class has for one property key.
EntriesFor(reg, c, k) ==
    LET m == getDatabaseSchemaMetadata(reg, c)
    IN  { m[i] : i \in { j \in 1..Len(m) : m[j].propertyKey = k } }

\* The keys listed in a schema definition.
DefinedKeys(properties) ==
    { properties[i].propertyKey : i \in 1..Len(properties) }

\* The keys for which a class has a merged entry.
MergedKeys(reg, c) == DefinedKeys(getDatabaseSchemaMetadata(reg, c))

\* C28: defineSchema(C, M) changes only the keys listed in M: every other
\* key of C keeps its merged entry, whatever registrations preceded the
\* call, and the classes that are not derived from C keep their merged
\* metadata.
C28_DefineSchemaFrame ==
    \A c \in RegClasses : \A d \in Definitions(c) :
        LET after == [own EXCEPT ![c] = defineSchemaMerge(own[c], d)]
        IN  /\ \A k \in MergedKeys(own, c) \ DefinedKeys(d) :
                EntriesFor(after, c, k) = EntriesFor(own, c, k)
            /\ \A x \in RegClasses \ {c} :
                ~InstanceOf(x, c) =>
                    getDatabaseSchemaMetadata(after, x) = getDatabaseSchemaMetadata(own, x)

(***************************************************************************)
(* The identifier option of document schemas: entities, value objects,     *)
(* enumerations and plain classes compiled at the top, at the limit and    *)
(* past it, with embedded value objects and entities nested in them.       *)
(***************************************************************************)
MaxIdRegs == 2

IdentifierClasses == {"Base", "Plain", "Addr", "Color", NoClass}

IdentifierDepths == {0, DepthLimit, DepthLimit + 1}

\* embedded: a value object or an entity, alone or in an array, or an
\* enumeration class.
EmbeddedOptions ==
    { [type |-> Ctor("Addr")], [type |-> ArrayOf("Addr")],
      [type |-> Ctor("Base"), optional |-> TRUE], [type |-> ArrayOf("Base")],
      [type |-> Ctor("Color")] }

RegisterEmbedded ==
    \E c \in {"Base", "Plain"} : \E o \in EmbeddedOptions :
        DatabaseSchema(c, "embedded", o)

CompileIdentifier ==
    \E c \in IdentifierClasses : \E depth \in IdentifierDepths :
        \/ CompileDocument(c, depth)
        \/ CompileDocumentRepository(c, depth)

NextIdentifier ==
    \/ nregs < MaxIdRegs /\ RegisterEmbedded
    \/ CompileIdentifier

SpecIdentifier == Init /\ [][NextIdentifier]_vars

\* The field k of a document schema holds a nested schema.
HasSchemaAt(schema, k) ==
    LET def == schema.obj[k]
    IN  \/ def.shape = "schema"
        \/ def.shape = "arr" /\ def.item.kind = "schema"
        \/ def.shape = "obj" /\ "type" \in DOMAIN def /\ def.type.kind = "schemaArray"

SchemaAt(schema, k) ==
    LET def == schema.obj[k]
    IN  IF def.shape = "schema" THEN def.schema
        ELSE IF def.shape = "arr" THEN def.item.schema
        ELSE def.type.schema

\* The class a nested schema under key k of class c was compiled from.
EmbeddedClass(c, k) == Entry(AllProps(own, c), k).type.name

RECURSIVE IdentifierIffEntity(_, _, _)
\* schema, compiled from class c at the given depth, has the identifier
\* exactly when c is an entity and the schema is not the placeholder, and so
\* has every schema nested in it.
IdentifierIffEntity(schema, c, depth) ==
    /\ schema._id = (c # NoClass /\ depth <= DepthLimit /\ InstanceOf(c, "Entity"))
    /\ \A k \in DOMAIN schema.obj :
          HasSchemaAt(schema, k) =>
              IdentifierIffEntity(SchemaAt(schema, k), EmbeddedClass(c, k), depth + 1)

\* C26: the document compiler sets _id to true exactly when the compiled
\* class is an entity: the schemas of value-object, enumeration and plain
\* classes, the nested schemas of embedded non-entity classes and the empty
\* placeholder (null class, or past the depth limit) have _id false.
C26_IdentifierIffEntity ==
    (Compiled /\ out.fn \in DocFns) =>
        IdentifierIffEntity(out.result, out.class, out.depth)

\* An entity's schema with the identifier, holding the nested schema of an
\* embedded value object without it.
C26_Witness ==
    /\ Compiled /\ out.fn \in DocFns
    /\ out.class = "Base"
    /\ out.result._id = TRUE
    /\ "embedded" \in DOMAIN out.result.obj
    /\ HasSchemaAt(out.result, "embedded")
    /\ EmbeddedClass("Base", "embedded") = "Addr"
    /\ SchemaAt(out.result, "embedded")._id = FALSE
    /\ DOMAIN SchemaAt(out.result, "embedded").obj # {}

(***************************************************************************)
(* Cycles in the embedded-type graph: an entity embedding itself, or two   *)
(* entities embedding each other, directly or through arrays, compiled by  *)
(* every entrypoint.                                                       *)
(***************************************************************************)
MaxCycleRegs == 2

\* Base.child embeds Base or Derived; Derived.other embeds Base.
CycleOptions(c) ==
    IF c = "Base"
    THEN { [propertyKey |-> "child", type |-> Ctor("Base"), optional |-> TRUE],
           [propertyKey |-> "child", type |-> ArrayOf("Base")],
           [propertyKey |-> "child", type |-> Ctor("Derived"), optional |-> TRUE],
           [propertyKey |-> "child", type |-> ArrayOf("Derived")] }
    ELSE { [propertyKey |-> "other", type |-> Ctor("Base"), optional |-> TRUE],
           [propertyKey |-> "other", type |-> ArrayOf("Base")] }

RegisterCycle ==
    \E c \in EntityClasses : \E o \in CycleOptions(c) :
        DatabaseSchema(c, o.propertyKey, OptionsOfEntry(o))

CompileCycle ==
    \E c \in EntityClasses :
        \/ CompileDocument(c, 0)
        \/ CompileDocumentRepository(c, 0)
        \/ CompileGraph(c)
        \/ CompileGraphSchema(c)
        \/ CompileRelational(c, 0)
        \/ CompileTypeOrmEntity(c, 0)

NextCycle ==
    \/ nregs < MaxCycleRegs /\ RegisterCycle
    \/ CompileCycle

SpecCycle == Init /\ [][NextCycle]_vars

\* The merged properties of c whose type is an embedded class, alone or in
\* an array.
EmbeddedProps(c) ==
    { p \in { Merged(c)[i] : i \in 1..Len(Merged(c)) } :
        /\ Has(p, "type")
        /\ p.type.kind \in {"ctor", "array"}
        /\ IsEmbeddable(p.type.name) }

\* The classes c embeds.
Embeds(c) == { p.type.name : p \in EmbeddedProps(c) }

RECURSIVE EmbedsWithin(_, _)
\* The classes reached from c over at most n embedded properties, n >= 1.
EmbedsWithin(c, n) ==
    IF n = 1 THEN Embeds(c)
    ELSE LET near == EmbedsWithin(c, n - 1)
         IN  near \cup UNION { Embeds(x) : x \in near }

\* A cycle of the embedded-type graph can be reached from c.
ReachesCycle(c) ==
    LET n == Cardinality(UserClasses)
    IN  \E x \in {c} \cup EmbedsWithin(c, n) : x \in EmbedsWithin(x, n)

RECURSIVE SixLevels(_, _)
\* The schemas nested at the levels 0..5 are not the placeholder, those at
\* level 6 are, and nothing is nested in them.
SixLevels(schema, level) ==
    IF level > DepthLimit
    THEN IsPlaceholder(schema)
    ELSE /\ ~IsPlaceholder(schema)
         /\ \A k \in DOMAIN schema.obj :
               HasSchemaAt(schema, k) => SixLevels(SchemaAt(schema, k), level + 1)

RECURSIVE PlaceholderAtSix(_, _)
\* Some chain of nested schemas ends in a placeholder at level 6.
PlaceholderAtSix(schema, level) ==
    IF level > DepthLimit
    THEN IsPlaceholder(schema)
    ELSE \E k \in DOMAIN schema.obj :
            /\ HasSchemaAt(schema, k)
            /\ PlaceholderAtSix(SchemaAt(schema, k), level + 1)

\* The node descriptor keeps each embedded property as one opaque property
\* typed object (or object[]), with nothing of the embedded class in it.
EmbeddedOpaque(node, c) ==
    \A p \in EmbeddedProps(c) :
        /\ p.propertyKey \in DOMAIN node.properties
        /\ node.properties[p.propertyKey].type \in {"object", "object[]"}
        /\ DOMAIN node.properties[p.propertyKey] \subseteq
              {"type", "isIdentifier", "unique", "optional", "enum", "default"}

\* C29: for classes whose embedded-type graph has a cycle (a class embedding
\* itself, or classes embedding each other, directly or through arrays),
\* every compile entrypoint returns without error; the document compiler
\* started at depth 0 returns non-empty nested schemas at the levels 0 to 5
\* and the empty placeholder at level 6; the graph compiler returns one node
\* descriptor labelled with the class name, its embedded properties opaque,
\* object-typed and not expanded.
C29_CyclesTerminate ==
    (out # << >> /\ ReachesCycle(out.class)) =>
        /\ "error" \notin DOMAIN out.result
        /\ out.fn \in DocFns => SixLevels(out.result, 0)
        /\ out.fn \in {"Neo4jSchema.extract", "Neo4jSchema.extractSchema"} =>
              /\ out.result.label = out.class
              /\ EmbeddedOpaque(out.result, out.class)
              /\ out.result.relationships = << >>
        /\ out.fn \in RelFns => out.result.name = out.class

\* Base and Derived embed each other, and the document schema of Base is
\* nested down to a placeholder at level 6.
C29_Witness ==
    /\ out # << >> /\ out.fn \in DocFns /\ out.class = "Base"
    /\ "Derived" \in Embeds("Base") /\ "Base" \in Embeds("Derived")
    /\ "Base" \notin Embeds("Base")
    /\ PlaceholderAtSix(out.result, 0)

(***************************************************************************)
(* The repositories: InMemoryRepository (in-memory.repository.ts), the     *)
(* MongoRepository kept in mongo.repository.ts and the one that leaves     *)
(* uniqueness to the unique index of its model, PostgresRepository and     *)
(* Neo4jRepository.  An async method is a sequence of steps, one for each  *)
(* stretch of code between two awaits, the database operation awaited at   *)
(* the end of a stretch taking effect with the stretch that follows it.    *)
(***************************************************************************)
MaxOps == 3

MaxRaceOps == 3

Adapters == {"InMemory", "Mongo", "MongoByIndex", "Postgres", "Neo4j"}

\* The adapters that implement IRepository.
IRepositories == Adapters \ {"Neo4j"}

\* Whether the database keeps a unique constraint on the unique property: a
\* Map keeps none, and the MongoRepository without a check of its own is
\* used with the unique index of its schema.
IndexOptions(a) ==
    IF a = "InMemory" THEN {FALSE}
    ELSE IF a = "MongoByIndex" THEN {TRUE}
    ELSE BOOLEAN

\* User{id, name, email(unique)}
Ids == {"a", "b"}

Emails == {"v", "w"}

Entity(id, email, name) == [id |-> id, email |-> email, name |-> name]

\* The entities handed to insert, and the changed ones handed to update.
InsertedEntities == { Entity(i, e, "n1") : i \in Ids, e \in Emails }

UpdatedEntities == { Entity(i, e, "n2") : i \in Ids, e \in Emails }

\* entity.document as stored; node tells the nodes of a graph apart (0 in a
\* store keyed by id).
Record(e, node) == [id |-> e.id, email |-> e.email, name |-> e.name, node |-> node]

\* this.hydrateFn(document)
hydrate(r) == Entity(r.id, r.email, r.name)

InitRepository ==
    /\ RegistryInit
    /\ adapter \in Adapters
    /\ indexed \in IndexOptions(adapter)
    /\ store = {}
    /\ hydrateFn = FALSE
    /\ calls = [p \in Procs |-> Idle]
    /\ nops = 0

\* model.exists({_id: id}), entities.has(id), existsBy({id}), MATCH (n {id: $id})
\* with every missing id taken for a stored one when anything is stored.
HasId_any(st, id) == st # {}

HasId(st, id) == \E r \in st : r.id = id

WithId(st, id) == { r \in st : r.id = id }

\* findOne(uniqueQuery), count({where: uniqueQuery}), MATCH (n:Class {email: $email})
WithUnique(st, e) == { r \in st : r.email = e.email }

\* the same with _id: {$ne: id}, id: Not(id), WHERE n.id <> $id
OtherWithUnique(st, e) == { r \in WithUnique(st, e) : r.id # e.id }

\* A node number not in use.
NewNode(st) ==
    IF st = {} THEN 1
    ELSE 1 + (CHOOSE n \in { r.node : r \in st } : \A r \in st : r.node <= n)

\* What a step leaves: the store, where the call stands, its result (the code
\* of the exception it threw) and the effects it had, in order: "persist"
\* for a write that reached the store, "create" and "delete" for the
\* entity's lifecycle hooks, "publish" for mediator.publishEvents.
Outcome(st, pc, res, effects) ==
    [store |-> st, pc |-> pc, res |-> res, effects |-> effects]

Thrown(st, code) == Outcome(st, "done", code, << >>)

(***************************************************************************)
(* insert                                                                  *)
(***************************************************************************)
\* InMemoryRepository.insert: no await before the entity is set.
InMemoryRepository_insert(st, e) ==
    IF HasId(st, e.id) THEN Thrown(st, "ENTITY_ALREADY_EXISTS")
    ELSE IF WithUnique(st, e) # {} THEN Thrown(st, "UNIQUE_CONSTRAINT_VIOLATION")
    ELSE Outcome(st \cup {Record(e, 0)}, "done", "ok", <<"persist", "publish">>)

\* The existence check of MongoRepository.insert, PostgresRepository.insert
\* and Neo4jRepository.createNode, up to the save.
insert_check(st, e) ==
    IF WithUnique(st, e) # {} THEN Thrown(st, "UNIQUE_CONSTRAINT_VIOLATION")
    ELSE Outcome(st, "save", "none", << >>)

\* newDoc.save() as it would be if the database refused a second document
\* with the unique value whether or not it keeps an index.
documentSave_checked(st, e, index, dbok) ==
    IF ~dbok THEN Thrown(st, "SAVE_FAILED")
    ELSE IF HasId(st, e.id) \/ WithUnique(st, e) # {} THEN Thrown(st, "E11000")
    ELSE Outcome(st \cup {Record(e, 0)}, "done", "ok", << "persist" >>)

\* newDoc.save(): the document is added unless the database fails, or holds
\* its _id, or keeps a unique index and holds its unique value.
documentSave(st, e, index, dbok) ==
    IF ~dbok THEN Thrown(st, "SAVE_FAILED")
    ELSE IF HasId(st, e.id) \/ (index /\ WithUnique(st, e) # {}) THEN Thrown(st, "E11000")
    ELSE Outcome(st \cup {Record(e, 0)}, "done", "ok", << "persist" >>)

\* The lifecycle hook and the publication that follow a save that did not throw.
ThenCreated(o) ==
    IF o.res = "ok" THEN [o EXCEPT !.effects = @ \o <<"create", "publish">>] ELSE o

\* MongoRepository.insert (mongo.repository.ts) from the save on.
MongoRepository_insert_save(st, e, index, dbok) ==
    ThenCreated(documentSave(st, e, index, dbok))

\* MongoRepository.insert without a check of its own: the save in a try
\* block, error code 11000 rethrown as UNIQUE_CONSTRAINT_VIOLATION.
MongoByIndex_insert(st, e, index, dbok) ==
    LET o == documentSave(st, e, index, dbok)
    IN  IF o.res = "E11000" THEN Thrown(st, "UNIQUE_CONSTRAINT_VIOLATION")
        ELSE ThenCreated(o)

\* typeOrmRepository.save(document): insert, or update of the row with the id.
typeOrmSave(st, e, index, dbok) ==
    IF ~dbok THEN Thrown(st, "SAVE_FAILED")
    ELSE IF index /\ OtherWithUnique(st, e) # {} THEN Thrown(st, "QUERY_FAILED")
    ELSE Outcome((st \ WithId(st, e.id)) \cup {Record(e, 0)}, "done", "ok", << "persist" >>)

\* PostgresRepository.insert from entity.create() on: the hook runs before
\* the save is awaited.
PostgresRepository_insert_save(st, e, index, dbok) ==
    LET o == typeOrmSave(st, e, index, dbok)
    IN  [o EXCEPT !.effects = <<"create">> \o @ \o
                                (IF o.res = "ok" THEN <<"publish">> ELSE << >>)]

\* CREATE (n:Class $properties): a new node, whatever ids the graph holds.
Neo4jRepository_createNode_save(st, e, index, dbok) ==
    IF ~dbok THEN Thrown(st, "SAVE_FAILED")
    ELSE IF index /\ WithUnique(st, e) # {} THEN Thrown(st, "CONSTRAINT_FAILED")
    ELSE Outcome(st \cup {Record(e, NewNode(st))}, "done", "ok",
                 <<"persist", "create", "publish">>)

\* The first step of insert in adapter a.
insert_first(a, st, e, index, dbok) ==
    IF a = "InMemory" THEN InMemoryRepository_insert(st, e)
    ELSE IF a = "MongoByIndex" THEN MongoByIndex_insert(st, e, index, dbok)
    ELSE insert_check(st, e)

\* The step of insert that follows a check that found nothing.
insert_save(a, st, e, index, dbok) ==
    IF a = "Mongo" THEN MongoRepository_insert_save(st, e, index, dbok)
    ELSE IF a = "Postgres" THEN PostgresRepository_insert_save(st, e, index, dbok)
    ELSE Neo4jRepository_createNode_save(st, e, index, dbok)

(***************************************************************************)
(* update                                                                  *)
(***************************************************************************)
\* InMemoryRepository.update: no await before the entity is set.
InMemoryRepository_update(st, e) ==
    IF ~HasId(st, e.id) THEN Thrown(st, "ENTITY_NOT_FOUND")
    ELSE IF OtherWithUnique(st, e) # {} THEN Thrown(st, "UNIQUE_CONSTRAINT_VIOLATION")
    ELSE Outcome((st \ WithId(st, e.id)) \cup {Record(e, 0)}, "done", "ok",
                 <<"persist", "publish">>)

\* The existence check that opens update in the database adapters; the
\* MongoRepository without a check of its own goes on to the write.
update_exists(a, st, e) ==
    IF ~HasId(st, e.id) THEN Thrown(st, "ENTITY_NOT_FOUND")
    ELSE Outcome(st, IF a = "MongoByIndex" THEN "write" ELSE "check", "none", << >>)

\* The uniqueness check of update.
update_check(st, e) ==
    IF OtherWithUnique(st, e) # {} THEN Thrown(st, "UNIQUE_CONSTRAINT_VIOLATION")
    ELSE Outcome(st, "write", "none", << >>)

\* model.findByIdAndUpdate(id, document, {new: true}): the document with the
\* id is replaced; null, and nothing written, when there is none.  The
\* events are published either way.
MongoRepository_update_write(st, e, index, dbok) ==
    IF ~dbok THEN Thrown(st, "SAVE_FAILED")
    ELSE IF HasId(st, e.id) /\ index /\ OtherWithUnique(st, e) # {}
    THEN Thrown(st, "E11000")
    ELSE IF HasId(st, e.id)
    THEN Outcome((st \ WithId(st, e.id)) \cup {Record(e, 0)}, "done", "ok",
                 <<"persist", "publish">>)
    ELSE Outcome(st, "done", "ok", <<"publish">>)

\* typeOrmRepository.save(entity.document), then publishEvents.
PostgresRepository_update_write(st, e, index, dbok) ==
    LET o == typeOrmSave(st, e, index, dbok)
    IN  IF o.res = "ok" THEN [o EXCEPT !.effects = @ \o <<"publish">>] ELSE o

\* MATCH (n {id: $id}) SET n = $properties: every node with the id.
Neo4jRepository_updateNode_write(st, e, index, dbok) ==
    IF ~dbok THEN Thrown(st, "SAVE_FAILED")
    ELSE IF HasId(st, e.id) /\ index /\
            (OtherWithUnique(st, e) # {} \/ Cardinality(WithId(st, e.id)) > 1)
    THEN Thrown(st, "CONSTRAINT_FAILED")
    ELSE Outcome({ IF r.id = e.id THEN Record(e, r.node) ELSE r : r \in st },
                 "done", "ok",
                 (IF HasId(st, e.id) THEN <<"persist">> ELSE << >>) \o <<"publish">>)

update_first(a, st, e) ==
    IF a = "InMemory" THEN InMemoryRepository_update(st, e)
    ELSE update_exists(a, st, e)

update_write(a, st, e, index, dbok) ==
    IF a \in {"Mongo", "MongoByIndex"} THEN MongoRepository_update_write(st, e, index, dbok)
    ELSE IF a = "Postgres" THEN PostgresRepository_update_write(st, e, index, dbok)
    ELSE Neo4jRepository_updateNode_write(st, e, index, dbok)

(***************************************************************************)
(* delete                                                                  *)
(***************************************************************************)
\* InMemoryRepository.delete: no lifecycle hook is called.
InMemoryRepository_delete(st, id) ==
    IF ~HasId(st, id) THEN Thrown(st, "ENTITY_NOT_FOUND")
    ELSE Outcome(st \ WithId(st, id), "done", "ok", <<"persist", "publish">>)

\* findByIdAndDelete / typeOrmRepository.delete, then entity.delete() and
\* publishEvents.
Repository_delete(st, id) ==
    IF ~HasId(st, id) THEN Thrown(st, "ENTITY_NOT_FOUND")
    ELSE Outcome(st \ WithId(st, id), "done", "ok", <<"persist", "delete", "publish">>)

\* Neo4jRepository.deleteNode up to the DETACH DELETE: findNodeById, which
\* hydrates the node it finds.
Neo4jRepository_deleteNode_find(st, id, hydrating) ==
    IF ~HasId(st, id) THEN Thrown(st, "ENTITY_NOT_FOUND")
    ELSE IF ~hydrating THEN Thrown(st, "HYDRATE_FUNCTION_NOT_SET")
    ELSE Outcome(st, "write", "none", << >>)

\* MATCH (n {id: $id}) DETACH DELETE n : no hook, no events.
Neo4jRepository_deleteNode_run(st, id) ==
    Outcome(st \ WithId(st, id), "done", "ok",
            IF HasId(st, id) THEN <<"persist">> ELSE << >>)

delete_first(a, st, id, hydrating) ==
    IF a = "InMemory" THEN InMemoryRepository_delete(st, id)
    ELSE IF a = "Neo4j" THEN Neo4jRepository_deleteNode_find(st, id, hydrating)
    ELSE Repository_delete(st, id)

(***************************************************************************)
(* reads                                                                   *)
(***************************************************************************)
\* docs.map(doc => this.hydrate(doc)) : the result and the entities returned.
\* InMemoryRepository returns the stored entities and calls no hydrate.
read(a, docs, hydrating) ==
    IF a # "InMemory" /\ docs # {} /\ ~hydrating
    THEN [res |-> "HYDRATE_FUNCTION_NOT_SET", ret |-> {}]
    ELSE [res |-> "ok", ret |-> { hydrate(r) : r \in docs }]

(***************************************************************************)
(* The calls of the callers in P, at most max of them in all.              *)
(***************************************************************************)
CanStart(p, max) == calls[p].pc \in {"idle", "done"} /\ nops < max

Started(p, op, arg, o) ==
    /\ store' = o.store
    /\ calls' = [calls EXCEPT ![p] =
                    [op |-> op, arg |-> arg, pc |-> o.pc, res |-> o.res,
                     effects |-> o.effects, ret |-> {}]]
    /\ nops' = nops + 1
    /\ UNCHANGED <<registry, adapter, indexed, hydrateFn>>

Resumed(p, o) ==
    /\ store' = o.store
    /\ calls' = [calls EXCEPT ![p].pc = o.pc, ![p].res = o.res,
                              ![p].effects = @ \o o.effects]
    /\ UNCHANGED <<registry, adapter, indexed, hydrateFn, nops>>

Returned(p, op, arg, r) ==
    /\ calls' = [calls EXCEPT ![p] =
                    [op |-> op, arg |-> arg, pc |-> "done", res |-> r.res,
                     effects |-> << >>, ret |-> r.ret]]
    /\ nops' = nops + 1
    /\ UNCHANGED <<registry, adapter, indexed, hydrateFn, store>>

At(p, op, pc) == calls[p].op = op /\ calls[p].pc = pc

Insert(P, max) ==
    \E p \in P : \E e \in InsertedEntities : \E dbok \in BOOLEAN :
        /\ CanStart(p, max)
        /\ Started(p, "insert", e, insert_first(adapter, store, e, indexed, dbok))

InsertSave(P) ==
    \E p \in P : \E dbok \in BOOLEAN :
        /\ At(p, "insert", "save")
        /\ Resumed(p, insert_save(adapter, store, calls[p].arg, indexed, dbok))

Update(P, max) ==
    \E p \in P : \E e \in UpdatedEntities :
        /\ CanStart(p, max)
        /\ Started(p, "update", e, update_first(adapter, store, e))

UpdateCheck(P) ==
    \E p \in P :
        /\ At(p, "update", "check")
        /\ Resumed(p, update_check(store, calls[p].arg))

UpdateWrite(P) ==
    \E p \in P : \E dbok \in BOOLEAN :
        /\ At(p, "update", "write")
        /\ Resumed(p, update_write(adapter, store, calls[p].arg, indexed, dbok))

Delete(P, max) ==
    \E p \in P : \E id \in Ids :
        /\ CanStart(p, max)
        /\ Started(p, "delete", [id |-> id], delete_first(adapter, store, id, hydrateFn))

DeleteRun(P) ==
    \E p \in P :
        /\ At(p, "delete", "write")
        /\ Resumed(p, Neo4jRepository_deleteNode_run(store, calls[p].arg.id))

\* findAll, and aggregate (PostgresRepository.aggregate is findAll; the
\* pipeline of the others is taken to match every document): not offered by
\* Neo4jRepository.
FindAll(P, max) ==
    \E p \in P :
        /\ CanStart(p, max) /\ adapter \in IRepositories
        /\ Returned(p, "findAll", NoEntity, read(adapter, store, hydrateFn))

Aggregate(P, max) ==
    \E p \in P :
        /\ CanStart(p, max) /\ adapter \in IRepositories
        /\ Returned(p, "aggregate", NoEntity, read(adapter, store, hydrateFn))

\* findById, findNodeById
FindById(P, max) ==
    \E p \in P : \E id \in Ids :
        /\ CanStart(p, max)
        /\ Returned(p, "findById", [id |-> id],
                    read(adapter, WithId(store, id), hydrateFn))

\* search({email}), findNodes({email})
Search(P, max) ==
    \E p \in P : \E email \in Emails :
        /\ CanStart(p, max)
        /\ Returned(p, "search", [id |-> "none", email |-> email],
                    read(adapter, { r \in store : r.email = email }, hydrateFn))

OnHydrate ==
    /\ ~hydrateFn
    /\ hydrateFn' = TRUE
    /\ UNCHANGED <<registry, adapter, indexed, store, calls, nops>>

(***************************************************************************)
(* One caller: every call runs to completion before the next begins.       *)
(***************************************************************************)
Caller == {1}

NextRepository ==
    \/ Insert(Caller, MaxOps)
    \/ InsertSave(Caller)
    \/ Update(Caller, MaxOps)
    \/ UpdateCheck(Caller)
    \/ UpdateWrite(Caller)
    \/ Delete(Caller, MaxOps)
    \/ DeleteRun(Caller)
    \/ FindAll(Caller, MaxOps)
    \/ Aggregate(Caller, MaxOps)
    \/ FindById(Caller, MaxOps)
    \/ Search(Caller, MaxOps)
    \/ OnHydrate

SpecRepository == InitRepository /\ [][NextRepository]_vars

(***************************************************************************)
(* Two callers writing concurrently, their steps interleaved; the          *)
(* hydration function is registered.                                       *)
(***************************************************************************)
InitRace ==
    /\ RegistryInit
    /\ adapter \in Adapters
    /\ indexed \in IndexOptions(adapter)
    /\ store = {}
    /\ hydrateFn = TRUE
    /\ calls = [p \in Procs |-> Idle]
    /\ nops = 0

NextRace ==
    \/ Insert(Procs, MaxRaceOps)
    \/ InsertSave(Procs)
    \/ Update(Procs, MaxRaceOps)
    \/ UpdateCheck(Procs)
    \/ UpdateWrite(Procs)
    \/ Delete(Procs, MaxRaceOps)
    \/ DeleteRun(Procs)

SpecRace == InitRace /\ [][NextRace]_vars

TypeOK ==
    /\ adapter \in Adapters
    /\ \A p \in Procs : calls[p].pc \in {"idle", "check", "save", "write", "done"}
    /\ nops \in 0..(MaxOps + MaxRaceOps)

(***************************************************************************)
(* Uniqueness, one caller.                                                 *)
(***************************************************************************)
\* No two stored records share a unique value.
NoSharedUnique ==
    \A r1 \in store : \A r2 \in store : r1.email = r2.email => r1 = r2

\* This step begins an insert of an entity whose unique value is stored
\* under a different id, the database being in working order.
InsertOfStoredValue(p) ==
    /\ nops' = nops + 1
    /\ calls'[p].op = "insert"
    /\ calls'[p].res # "SAVE_FAILED"
    /\ OtherWithUnique(store, calls'[p].arg) # {}

\* C21: when an entity with unique value v is stored, a later insert, run to
\* completion, of an entity with a different id and the same v fails with
\* UNIQUE_CONSTRAINT_VIOLATION and stores nothing, and findById of the first
\* id still returns the first entity; hence after any sequence of insert,
\* update and delete by one caller no two stored entities share a unique
\* value.
C21_UniqueValuesKept ==
    /\ [](\A p \in Caller : calls[p].pc \in {"idle", "done"} => NoSharedUnique)
    /\ [][\A p \in Caller :
            InsertOfStoredValue(p) =>
                /\ calls'[p].pc = "done"
                /\ calls'[p].res = "UNIQUE_CONSTRAINT_VIOLATION"
                /\ store' = store
                /\ \A r \in OtherWithUnique(store, calls'[p].arg) :
                      read(adapter, WithId(store', r.id), TRUE).ret = {hydrate(r)}]_vars

(***************************************************************************)
(* Check-then-insert, two callers.                                         *)
(***************************************************************************)
\* The adapters that check uniqueness with a query of their own before
\* saving: document, relational and graph.
CheckingAdapters == {"Mongo", "Postgres", "Neo4j"}

Stored(st, e) == \E r \in st : hydrate(r) = e

\* This step is the save of an insert by p whose check has passed, on a
\* database in working order that keeps no unique constraint and holds no
\* record with the entity's id.
SaveAfterCheck(p) ==
    /\ At(p, "insert", "save")
    /\ calls'[p].pc = "done"
    /\ calls'[p].res # "SAVE_FAILED"
    /\ adapter \in CheckingAdapters /\ ~indexed
    /\ ~HasId(store, calls[p].arg.id)

\* C22: check-then-insert is racy.  On a document, graph or relational
\* repository whose database keeps no unique constraint, the save of an
\* insert whose existence check has passed is not checked again: it succeeds
\* and adds the entity to whatever is stored by then, so that two concurrent
\* inserts of different ids with the same unique value that both pass the
\* check before either saves both succeed and are both stored.
C22_CheckThenInsertRacy ==
    [][\A p \in Procs :
          SaveAfterCheck(p) =>
              /\ calls'[p].res = "ok"
              /\ Stored(store', calls[p].arg)
              /\ \A r \in store : r \in store']_vars

\* Both inserts have succeeded and the store holds two entities with the
\* same unique value.
C22_Witness ==
    /\ adapter \in CheckingAdapters /\ ~indexed
    /\ \A p \in Procs : calls[p].op = "insert" /\ calls[p].pc = "done" /\ calls[p].res = "ok"
    /\ calls[1].arg.id # calls[2].arg.id
    /\ calls[1].arg.email = calls[2].arg.email
    /\ Stored(store, calls[1].arg) /\ Stored(store, calls[2].arg)
    /\ nops = 2

(***************************************************************************)
(* update and delete of a missing id.                                      *)
(***************************************************************************)
\* This step begins an update or a delete by p of an id that is not stored.
OnMissingId(p) ==
    /\ nops' = nops + 1
    /\ calls'[p].op \in {"update", "delete"}
    /\ \A r \in store : r.id # calls'[p].arg.id

\* C23: update(entity) and delete(entity) on a repository that holds no
\* record with the entity's id fail with ENTITY_NOT_FOUND, leave the stored
\* set unchanged, publish no events and do not run the delete hook.
C23_MissingIdNotFound ==
    [][\A p \in Caller :
          OnMissingId(p) =>
              /\ calls'[p].pc = "done"
              /\ calls'[p].res = "ENTITY_NOT_FOUND"
              /\ store' = store
              /\ calls'[p].effects = << >>]_vars

\* A delete and an update that failed with ENTITY_NOT_FOUND on a store that
\* holds another entity.
C23_Witness ==
    /\ \E p \in Caller :
          /\ calls[p].op \in {"update", "delete"}
          /\ calls[p].pc = "done"
          /\ calls[p].res = "ENTITY_NOT_FOUND"
          /\ \A r \in store : r.id # calls[p].arg.id
          /\ calls[p].effects = << >>
    /\ store # {}

(***************************************************************************)
(* Reads and the hydration function.                                       *)
(***************************************************************************)
Reads == {"findAll", "findById", "search", "aggregate"}

\* C24: a read (findAll, findById, search or aggregate) made before onHydrate
\* has registered a hydration function fails with HYDRATE_FUNCTION_NOT_SET,
\* in every adapter and whatever the store contains, also when the read
\* matches no record; after onHydrate has been called no read raises it.
C24_ReadsNeedHydrate ==
    [][\A p \in Caller :
          (nops' = nops + 1 /\ calls'[p].op \in Reads) =>
              (calls'[p].res = "HYDRATE_FUNCTION_NOT_SET" <=> ~hydrateFn)]_vars

(***************************************************************************)
(* The order of save, create hook and publication in insert.               *)
(***************************************************************************)
\* The positions of an effect in the effects of a call.
Positions(effects, x) == { i \in 1..Len(effects) : effects[i] = x }

\* The effect x happened exactly once, and after the record was persisted.
OnceAfterPersist(effects, x) ==
    /\ Cardinality(Positions(effects, x)) = 1
    /\ \A i \in Positions(effects, x) : \E j \in Positions(effects, "persist") : j < i

\* C27: in every adapter's insert the create hook runs and the events are
\* published only after the entity has been persisted, and exactly once for
\* each successful insert; when the insert fails (uniqueness violation or
\* failed save) the create hook has not run and no events are published.
C27_HooksAfterPersist ==
    \A p \in Caller :
        (calls[p].op = "insert" /\ calls[p].pc = "done") =>
            IF calls[p].res = "ok"
            THEN /\ OnceAfterPersist(calls[p].effects, "create")
                 /\ OnceAfterPersist(calls[p].effects, "publish")
            ELSE /\ Positions(calls[p].effects, "create") = {}
                 /\ Positions(calls[p].effects, "publish") = {}

(***************************************************************************)
(* MongoRepository.update against a concurrent delete.                     *)
(***************************************************************************)
\* This step completes an update by p.
UpdateCompletes(p) ==
    /\ calls'[p].op = "update"
    /\ calls'[p].pc = "done"
    /\ calls[p] # calls'[p]

\* C30: MongoRepository.update(entity) either fails with ENTITY_NOT_FOUND or,
\* when it completes successfully and publishes the entity's events, leaves
\* a record for the entity's id with the updated content in the store, in
\* every interleaving with a concurrent delete of the same id, the one where
\* the delete runs between update's existence check and its write included.
C30_UpdateWritesOrFails ==
    [][\A p \in Procs :
          (adapter \in {"Mongo", "MongoByIndex"} /\ UpdateCompletes(p)
             /\ calls'[p].res = "ok") =>
              /\ "publish" \in { calls'[p].effects[i] : i \in 1..Len(calls'[p].effects) }
              /\ Stored(store', calls'[p].arg)]_vars

====
